---- MODULE Spec2Model ----
(***************************************************************************)
(* A model of PyAAVF: the Record model (PyAAVF/model.py), the ordered      *)
(* merge walk_together (PyAAVF/utils.py) and the Reader / Writer record    *)
(* codec (PyAAVF/parser.py).                                               *)
(*                                                                         *)
(* Python values are represented as follows.                               *)
(*   - None            : a value of its own per position (NoneRec for a    *)
(*                       slot of nexts, FNone for FILTER, NoneChrom for    *)
(*                       the element of the tuple (None,)).                *)
(*   - str             : a TLA+ string where the code only copies or       *)
(*                       compares it; a sequence of symbols (characters    *)
(*                       or indivisible character runs) where the code     *)
(*                       splits or joins it.                               *)
(*   - list            : a sequence.                                       *)
(*   - dict            : a function on the set of its keys.                *)
(***************************************************************************)
EXTENDS Integers, Sequences, FiniteSets, TLC

VARIABLES
    readers,    \* walk_together: the record sequence behind each reader
    consumed,   \* walk_together: how many records each reader has handed out
    pulls,      \* walk_together: how many next() calls were made on each reader
    nexts,      \* walk_together: the pending record (or None) of each reader
    min_k,      \* walk_together: the key emitted last, (None,) at first
    rows,       \* walk_together: the rows yielded so far
    wpc,        \* walk_together: "start", "loop" or "done"
    recA,       \* Record: the record the calls are made on
    recB,       \* Record: the record recA is compared with
    eq_result,  \* Record: what recA == recB returned, "unset" before
    recA0,      \* Record: recA as it was constructed
    added,      \* Record: the names passed to recA.add_filter, in call order
    records,    \* AAVF: self.records
    record_len, \* AAVF: self.record_len
    index,      \* AAVF: self.index
    returned,   \* AAVF: the records the next calls have returned, in order
    outcome,    \* AAVF: how the last next call ended, "none" before the first
    calls,      \* AAVF: the number of next calls made
    filt_str,   \* Reader._parse_filter: the text of the FILTER column
    filt,       \* Reader._parse_filter: what it returned
    fpc,        \* Reader._parse_filter: "start" or "parsed"
    infos,      \* Reader / Writer: the INFO definitions of the header, in order
    opts,       \* Reader: prepend_chr and strict_whitespace
    line,       \* Reader: the data line read
    rec,        \* Reader.next: the outcome of decoding line
    out,        \* Writer.write_record: the outcome of writing rec
    rec2,       \* Reader.next: the outcome of decoding the written line
    cpc,        \* codec: "start", "read", "written" or "reread"
    stream,     \* Reader: the lines of the file behind the Reader
    spos,       \* Reader: how many lines of stream self.reader has consumed
    hline,      \* Reader._parse_metainfo: the local variable line
    metadata,   \* Reader: self.metadata
    filters,    \* Reader: the keys of self.filters, in order
    header_lines,   \* Reader: self._header_lines
    column_headers, \* Reader: self._column_headers
    got,        \* Reader: the outcomes of the next calls made, in order
    hpc,        \* Reader: "new", "meta", "ready", "eof" or "failed";
                \* "written" and "reread" after a Writer was made from it
    herr,       \* Reader: the exception that left __init__, "" when none
    wstream,    \* Writer: the lines written to the Writer's stream
    werr,       \* Writer: the exception that left __init__, "" when none
    reader2     \* Reader: the outcome of Reader(...) over wstream

walkVars == <<readers, consumed, pulls, nexts, min_k, rows, wpc>>

recVars == <<recA, recB, eq_result, recA0, added>>

aavfVars == <<records, record_len, index, returned, outcome, calls>>

filtVars == <<filt_str, filt, fpc>>

codecVars == <<infos, opts, line, rec, out, rec2, cpc>>

writerVars == <<wstream, werr, reader2>>

headerVars == <<stream, spos, hline, metadata, filters, header_lines,
                column_headers, got, hpc, herr, writerVars>>

(* The variables other than those of one part.                            *)
notWalk == <<recVars, aavfVars, filtVars, codecVars, headerVars>>
notRec == <<walkVars, aavfVars, filtVars, codecVars, headerVars>>
notAavf == <<walkVars, recVars, filtVars, codecVars, headerVars>>
notFilt == <<walkVars, recVars, aavfVars, codecVars, headerVars>>
notCodec == <<walkVars, recVars, aavfVars, filtVars, headerVars>>
(* The header is parsed into infos, which the codec reads.                *)
notHeader == <<walkVars, recVars, aavfVars, filtVars,
               opts, line, rec, out, rec2, cpc>>

vars == <<readers, consumed, pulls, nexts, min_k, rows, wpc,
          recA, recB, eq_result, recA0, added,
          records, record_len, index, returned, outcome, calls,
          filt_str, filt, fpc,
          infos, opts, line, rec, out, rec2, cpc,
          stream, spos, hline, metadata, filters, header_lines,
          column_headers, got, hpc, herr, wstream, werr, reader2>>

-----------------------------------------------------------------------------
(* Bounds of the model.                                                    *)

(* walk_together, any readers: at most MaxReaders readers that hold at     *)
(* most MaxTotal records together.                                         *)
MaxReaders == 2
MaxTotal == 3

(* walk_together iterated to its end: at most FairMaxReaders readers that  *)
(* hold at most FairMaxTotal records together.                             *)
FairMaxReaders == 2
FairMaxTotal == 2

(* walk_together, identical readers: at most SameMaxReaders readers of at  *)
(* most SameMaxLen records each.                                           *)
SameMaxReaders == 3
SameMaxLen == 3

(* Record: at most MaxAdds calls of add_filter.                            *)
MaxAdds == 2

(* AAVF: at most MaxRecords records, and at most MaxExtraCalls calls of    *)
(* next more than there are records.                                       *)
MaxRecords == 3
MaxExtraCalls == 2

(* Reader._parse_filter: FILTER texts of at most MaxFilterLen characters.  *)
MaxFilterLen == 4

(* Reader / Writer: data lines of at most MaxInfoEntries INFO entries.     *)
MaxInfoEntries == 2

(* Writer, INFO order: data lines of at most MaxFlags INFO flags under a   *)
(* header of at most MaxDefs INFO definitions.                             *)
MaxFlags == 4
MaxDefs == 3

(* The header: a file of at most MaxStream lines; a file of at most        *)
(* MaxMetaLines metadata lines before the column headers.                  *)
MaxStream == 4
MaxMetaLines == 3

(* Data rows: between 9 - MaxColumnsOff and 9 + MaxColumnsOff columns.     *)
MaxColumnsOff == 1

(* The most items of a bracketed metadata line.                            *)
MaxPairs == 3

(* Writer: a header of at most MaxWriterLines lines before the columns.    *)
MaxWriterLines == 3

-----------------------------------------------------------------------------
(* Strings and their order.  Python compares str values by code point;     *)
(* StrOrder lists the strings the model orders, ascending.                 *)

StrOrder ==
    << "AA", "AC", "AF", "DB", "DP", "H2", "PR", "RT", "XA", "XB", "chr1", "chr2" >>

StrRank(s) == CHOOSE i \in 1..Len(StrOrder) : StrOrder[i] = s

StrLess(s, t) == StrRank(s) < StrRank(t)

(* The genomic keys of the walk.  They order as                            *)
(*   (chr1,RT,5) < (chr1,RT,9) < (chr2,PR,2) < (chr2,RT,1)                 *)
(* so that CHROM decides before GENE and GENE before POS.                  *)
WalkKeys == { <<"chr1", "RT", 5>>, <<"chr1", "RT", 9>>,
              <<"chr2", "PR", 2>>, <<"chr2", "RT", 1>> }

Alts == {"K", "R"}

(* The element of the 1-tuple (None,) that min_k starts as.                *)
NoneChrom == "<None>"

(* None in a slot of nexts or of a yielded row.                            *)
NoneRec == [none |-> TRUE]

(* FILTER: None, or a list of names ([] is PASS).                          *)
FNone == [isNone |-> TRUE, names |-> <<>>]
FList(names) == [isNone |-> FALSE, names |-> names]

(* An empty dict.                                                          *)
EmptyDict == <<>>

-----------------------------------------------------------------------------
(* model.py: Record                                                        *)

Record(CHROM, GENE, POS, REF, ALT, FILTER, ALT_FREQ, COVERAGE, INFO) ==
    [CHROM |-> CHROM, GENE |-> GENE, POS |-> POS, REF |-> REF, ALT |-> ALT,
     FILTER |-> FILTER, ALT_FREQ |-> ALT_FREQ, COVERAGE |-> COVERAGE,
     INFO |-> INFO]

(* Record.__eq__ as the faulty variant without the two early returns. *)
Record_eq_NoEarlyReturn(self, other) ==
    LET ac_present == "AC" \in DOMAIN self.INFO /\ "AC" \in DOMAIN other.INFO
        equal_rec == /\ self.CHROM = other.CHROM
                     /\ self.GENE = other.GENE
                     /\ self.POS = other.POS
                     /\ self.REF = other.REF
                     /\ self.ALT = other.ALT
    IN  IF ac_present
        THEN equal_rec /\ self.INFO["AC"] = other.INFO["AC"]
        ELSE equal_rec

(* Record.__eq__                                                           *)
Record_eq(self, other) ==
    IF "AC" \in DOMAIN self.INFO /\ "AC" \notin DOMAIN other.INFO THEN FALSE
    ELSE IF "AC" \notin DOMAIN self.INFO /\ "AC" \in DOMAIN other.INFO THEN FALSE
    ELSE
        LET ac_present == "AC" \in DOMAIN self.INFO /\ "AC" \in DOMAIN other.INFO
            equal_rec == /\ self.CHROM = other.CHROM
                         /\ self.GENE = other.GENE
                         /\ self.POS = other.POS
                         /\ self.REF = other.REF
                         /\ self.ALT = other.ALT
        IN  IF ac_present
            THEN equal_rec /\ self.INFO["AC"] = other.INFO["AC"]
            ELSE equal_rec

(* Record.is_filtered                                                      *)
is_filtered(self) ==
    IF self.FILTER.isNone \/ self.FILTER.names = <<>> THEN FALSE ELSE TRUE

-----------------------------------------------------------------------------
(* utils.py: walk_together                                                 *)

(* The records the readers of the walk hand out.                           *)
WalkRecords ==
    { Record(k[1], k[2], k[3], "A", <<a>>, FList(<<>>), 1, 1, EmptyDict) :
        k \in WalkKeys, a \in Alts }

(* (r.CHROM, r.GENE, r.POS)                                                *)
KeyOf(r) == <<r.CHROM, r.GENE, r.POS>>

(* Python's < on two (CHROM, GENE, POS) tuples.                            *)
KeyLess(k1, k2) ==
    \/ StrLess(k1[1], k2[1])
    \/ k1[1] = k2[1] /\ StrLess(k1[2], k2[2])
    \/ k1[1] = k2[1] /\ k1[2] = k2[2] /\ k1[3] < k2[3]

(* min() of a non-empty collection of keys.                                *)
MinKey(keys) == CHOOSE k \in keys : \A j \in keys : ~KeyLess(j, k)

(* max() of a non-empty collection of keys: a faulty variant of min(). *)
MaxKey(keys) == CHOOSE k \in keys : \A j \in keys : ~KeyLess(k, j)

(* next(reader) as the faulty variant that hands out a record twice. *)
NextOf_Again(i) ==
    IF consumed[i] < Len(readers[i])
    THEN readers[i][IF consumed[i] = 0 THEN 1 ELSE consumed[i]]
    ELSE NoneRec

(* next(reader) for reader i: the record handed out, None on StopIteration *)
NextOf(i) ==
    IF consumed[i] < Len(readers[i]) THEN readers[i][consumed[i] + 1] ELSE NoneRec

(* The reader's position as the faulty variant that skips a record. *)
NextConsumed_Skip(i) ==
    IF consumed[i] + 1 < Len(readers[i]) THEN consumed[i] + 2 ELSE Len(readers[i])

NextConsumed(i) ==
    IF consumed[i] < Len(readers[i]) THEN consumed[i] + 1 ELSE consumed[i]

ReaderIdx == 1..Len(readers)

(* The indexes of next_index_to_key: the readers with a pending record.    *)
PendingIdx == { i \in ReaderIdx : nexts[i] # NoneRec }

(* next_index_to_key.values()                                              *)
PendingKeys == { KeyOf(nexts[i]) : i \in PendingIdx }

(* keys_with_prev_contig as the faulty variant that keeps the other contigs. *)
keys_with_prev_contig_Other == { key \in PendingKeys : key[1] # min_k[1] }

(* keys_with_prev_contig                                                   *)
keys_with_prev_contig == { key \in PendingKeys : key[1] = min_k[1] }

(* The selection without the contig rule: a faulty variant of SelectMinKey. *)
SelectMinKey_NoContig == MinKey(PendingKeys)

(* The selection that takes the largest key: a faulty variant of SelectMinKey. *)
SelectMinKey_Max ==
    IF keys_with_prev_contig # {}
    THEN MaxKey(keys_with_prev_contig)
    ELSE MaxKey(PendingKeys)

(* The new min_k of one pass of the loop.                                  *)
SelectMinKey ==
    IF keys_with_prev_contig # {}
    THEN MinKey(keys_with_prev_contig)
    ELSE MinKey(PendingKeys)

(* min_k_idxs as the faulty variant that advances only the first matching reader. *)
MinIdxs_FirstOnly(k) ==
    LET all == { i \in PendingIdx : KeyOf(nexts[i]) = k }
    IN  { i \in all : \A j \in all : i <= j }

(* min_k_idxs as the faulty variant that takes every pending reader. *)
MinIdxs_AllPending(k) == PendingIdx

(* min_k_idxs as the faulty variant that takes no reader. *)
MinIdxs_None(k) == {}

(* min_k_idxs                                                              *)
MinIdxs(k) == { i \in PendingIdx : KeyOf(nexts[i]) = k }

(* Lines 40-47: one record is pulled from every reader.                    *)
WalkStart ==
    /\ wpc = "start"
    /\ nexts' = [i \in ReaderIdx |-> NextOf(i)]
    /\ consumed' = [i \in ReaderIdx |-> NextConsumed(i)]
    /\ pulls' = [i \in ReaderIdx |-> pulls[i] + 1]
    /\ min_k' = <<NoneChrom>>
    /\ wpc' = "loop"
    /\ UNCHANGED <<readers, rows>>
    /\ UNCHANGED notWalk

(* Lines 50-73: one pass of the loop: a row is yielded and the readers     *)
(* that held min_k are advanced.                                           *)
WalkStep ==
    /\ wpc = "loop"
    /\ PendingIdx # {}
    /\ LET k == SelectMinKey
           idxs == MinIdxs(k)
       IN  /\ min_k' = k
           /\ rows' = Append(rows,
                  [i \in ReaderIdx |-> IF i \in idxs THEN nexts[i] ELSE NoneRec])
           /\ nexts' = [i \in ReaderIdx |->
                  IF i \in idxs THEN NextOf(i) ELSE nexts[i]]
           /\ consumed' = [i \in ReaderIdx |->
                  IF i \in idxs THEN NextConsumed(i) ELSE consumed[i]]
           /\ pulls' = [i \in ReaderIdx |->
                  IF i \in idxs THEN pulls[i] + 1 ELSE pulls[i]]
    /\ UNCHANGED <<readers, wpc>>
    /\ UNCHANGED notWalk

(* Line 50: no reader has a pending record: the generator returns.         *)
WalkEnd ==
    /\ wpc = "loop"
    /\ PendingIdx = {}
    /\ wpc' = "done"
    /\ UNCHANGED <<readers, consumed, pulls, nexts, min_k, rows>>
    /\ UNCHANGED notWalk

(* sum(lens[1..n])                                                         *)
RECURSIVE SumTo(_, _)
SumTo(lens, n) == IF n = 0 THEN 0 ELSE lens[n] + SumTo(lens, n - 1)

(* The sequence flat cut into Len(lens) consecutive pieces, piece i of     *)
(* length lens[i].                                                         *)
Cut(flat, lens) ==
    [i \in 1..Len(lens) |->
        SubSeq(flat, SumTo(lens, i - 1) + 1, SumTo(lens, i))]

(* The arguments of a call: between 1 and MaxReaders readers that hold at  *)
(* most MaxTotal records together, every record sequence being possible.   *)
WalkInit ==
    /\ \E n \in 1..MaxReaders, t \in 0..MaxTotal :
         \E lens \in [1..n -> 0..t], flat \in [1..t -> WalkRecords] :
            /\ SumTo(lens, n) = t
            /\ readers = Cut(flat, lens)
    /\ consumed = [i \in 1..Len(readers) |-> 0]
    /\ pulls = [i \in 1..Len(readers) |-> 0]
    /\ nexts = [i \in 1..Len(readers) |-> NoneRec]
    /\ min_k = <<NoneChrom>>
    /\ rows = <<>>
    /\ wpc = "start"

(* The arguments of a call that is iterated to its end: between 1 and      *)
(* FairMaxReaders readers that hold at most FairMaxTotal records together. *)
FairInit ==
    /\ \E n \in 1..FairMaxReaders, t \in 0..FairMaxTotal :
         \E lens \in [1..n -> 0..t], flat \in [1..t -> WalkRecords] :
            /\ SumTo(lens, n) = t
            /\ readers = Cut(flat, lens)
    /\ consumed = [i \in 1..Len(readers) |-> 0]
    /\ pulls = [i \in 1..Len(readers) |-> 0]
    /\ nexts = [i \in 1..Len(readers) |-> NoneRec]
    /\ min_k = <<NoneChrom>>
    /\ rows = <<>>
    /\ wpc = "start"

(* The arguments of the test's call: between 1 and SameMaxReaders readers  *)
(* over one and the same record sequence of at most SameMaxLen records.    *)
SameInit ==
    /\ \E n \in 1..SameMaxReaders, l \in 0..SameMaxLen :
         \E one \in [1..l -> WalkRecords] :
            readers = [i \in 1..n |-> one]
    /\ consumed = [i \in 1..Len(readers) |-> 0]
    /\ pulls = [i \in 1..Len(readers) |-> 0]
    /\ nexts = [i \in 1..Len(readers) |-> NoneRec]
    /\ min_k = <<NoneChrom>>
    /\ rows = <<>>
    /\ wpc = "start"

WalkNext == WalkStart \/ WalkStep \/ WalkEnd

(* walk_together is not called.                                            *)
WalkIdle ==
    /\ readers = <<>>
    /\ consumed = <<>>
    /\ pulls = <<>>
    /\ nexts = <<>>
    /\ min_k = <<NoneChrom>>
    /\ rows = <<>>
    /\ wpc = "idle"

-----------------------------------------------------------------------------
(* model.py: Record.__eq__, Record.add_filter, Record.add_info             *)

(* INFO['AC'] values and an INFO['DP'] value.                              *)
ACValues == { <<"tAa">>, <<"tGa">> }
DPValues == { 31 }

(* The INFO dicts over the identifiers AC and DP.                          *)
RecInfos ==
    {EmptyDict}
    \cup { [AC |-> a] : a \in ACValues }
    \cup { [DP |-> d] : d \in DPValues }
    \cup { [AC |-> a, DP |-> d] : a \in ACValues, d \in DPValues }

FilterNames == { "q10", "s50" }

(* The records recA starts as: one variant, any FILTER state, any INFO.    *)
RecsA ==
    { Record("chr1", "RT", 5, "A", <<"K">>, f, 1, 1, i) :
        f \in { FNone, FList(<<>>), FList(<<"q10">>) }, i \in RecInfos }

(* The records recB is: any variant, FILTER, ALT_FREQ, COVERAGE and INFO.  *)
RecsB ==
    { Record(k[1], k[2], k[3], k[4], k[5], n[1], n[2], n[3], i) :
        k \in {"chr1", "chr2"} \X {"PR", "RT"} \X {5, 9} \X {"A", "T"}
               \X { <<"K">>, <<"K", "R">> },
        n \in { <<FNone, 1, 1>>, <<FList(<<"s50">>), 2, 7>> },
        i \in RecInfos }

(* Record.add_filter as the faulty variant that overwrites the names held. *)
add_filter_Overwrite(self, flt) ==
    [self EXCEPT !.FILTER = FList(<<flt>>)]

(* Record.add_filter: self after the call.                                 *)
add_filter(self, flt) ==
    IF self.FILTER.isNone
    THEN [self EXCEPT !.FILTER = FList(<<flt>>)]
    ELSE [self EXCEPT !.FILTER = FList(Append(self.FILTER.names, flt))]

(* dict[key] = value                                                       *)
DictSet(d, key, value) ==
    [k \in DOMAIN d \cup {key} |-> IF k = key THEN value ELSE d[k]]

(* Record.add_info: self after the call.                                   *)
add_info(self, info, value) ==
    [self EXCEPT !.INFO = DictSet(self.INFO, info, value)]

RecInit ==
    /\ recA \in RecsA
    /\ recB \in RecsB
    /\ eq_result = "unset"
    /\ recA0 = recA
    /\ added = <<>>

RecIdle ==
    /\ recA = NoneRec
    /\ recB = NoneRec
    /\ eq_result = "unset"
    /\ recA0 = NoneRec
    /\ added = <<>>

(* recA.add_filter(flt)                                                    *)
AddFilter ==
    /\ Len(added) < MaxAdds
    /\ \E flt \in FilterNames :
         /\ recA' = add_filter(recA, flt)
         /\ added' = Append(added, flt)
    /\ eq_result' = "unset"
    /\ UNCHANGED <<recB, recA0>>
    /\ UNCHANGED notRec

(* recA.add_info(info, value)                                              *)
AddInfo ==
    /\ \E info \in {"AC", "DP"} :
         \E value \in (IF info = "AC" THEN ACValues ELSE DPValues) :
            recA' = add_info(recA, info, value)
    /\ eq_result' = "unset"
    /\ UNCHANGED <<recB, recA0, added>>
    /\ UNCHANGED notRec

(* recA == recB                                                            *)
Compare ==
    /\ eq_result' = IF Record_eq(recA, recB) THEN "True" ELSE "False"
    /\ UNCHANGED <<recA, recB, recA0, added>>
    /\ UNCHANGED notRec

RecNext == AddFilter \/ AddInfo \/ Compare

-----------------------------------------------------------------------------
(* model.py: AAVF                                                          *)

(* AAVF.__next__ as the faulty variant that rewinds when it raises StopIteration. *)
AAVF_next_Rewind(idx, len) ==
    IF idx = len - 1
    THEN [stop |-> TRUE, index |-> -1]
    ELSE [stop |-> FALSE, index |-> idx + 1]

(* AAVF.__next__: whether it raises StopIteration, and self.index after.   *)
AAVF_next(idx, len) ==
    IF idx = len - 1
    THEN [stop |-> TRUE, index |-> idx]
    ELSE [stop |-> FALSE, index |-> idx + 1]

(* The records of an AAVF object.                                          *)
AAVFRecords ==
    { Record(k[1], k[2], k[3], "A", <<"K">>, FList(<<>>), 1, 1, EmptyDict) :
        k \in { <<"chr1", "RT", 5>>, <<"chr1", "RT", 9>>, <<"chr2", "RT", 1>> } }

(* AAVF.__init__                                                           *)
AAVFInit ==
    /\ \E l \in 0..MaxRecords : records \in [1..l -> AAVFRecords]
    /\ record_len = Len(records)
    /\ index = -1
    /\ returned = <<>>
    /\ outcome = "none"
    /\ calls = 0

AAVFIdle ==
    /\ records = <<>>
    /\ record_len = 0
    /\ index = -1
    /\ returned = <<>>
    /\ outcome = "idle"
    /\ calls = 0

(* AAVF.next / AAVF.__next__, from a for loop or called directly; __iter__ *)
(* returns self, so a second loop goes on making these calls.              *)
AAVFNext ==
    /\ outcome # "idle"
    /\ calls < Len(records) + MaxExtraCalls
    /\ LET r == AAVF_next(index, record_len)
       IN  /\ index' = r.index
           /\ outcome' = IF r.stop THEN "StopIteration" ELSE "record"
           /\ returned' = IF r.stop THEN returned
                          ELSE Append(returned, records[r.index + 1])
    /\ calls' = calls + 1
    /\ UNCHANGED <<records, record_len>>
    /\ UNCHANGED notAavf

-----------------------------------------------------------------------------
(* Text.  A text that the code splits or joins is a sequence of symbols.   *)

(* str.split(sep) for a one-symbol separator: the pieces between the       *)
(* occurrences of sep; a text without sep is its only piece.               *)
RECURSIVE Split(_, _)
Split(text, sep) ==
    IF \A i \in 1..Len(text) : text[i] # sep
    THEN << text >>
    ELSE LET at == CHOOSE i \in 1..Len(text) :
                      text[i] = sep /\ \A j \in 1..(i - 1) : text[j] # sep
         IN  << SubSeq(text, 1, at - 1) >>
                 \o Split(SubSeq(text, at + 1, Len(text)), sep)

(* sep.join(pieces)                                                        *)
RECURSIVE Join(_, _)
Join(pieces, sep) ==
    IF pieces = <<>> THEN <<>>
    ELSE IF Len(pieces) = 1 THEN pieces[1]
    ELSE pieces[1] \o <<sep>> \o Join(Tail(pieces), sep)

MISSING == << "." >>
PASS == << "P", "A", "S", "S" >>

-----------------------------------------------------------------------------
(* parser.py: Reader._parse_filter                                         *)

(* Reader._parse_filter as the faulty variant without the PASS branch. *)
parse_filter_NoPass(filt_text) ==
    IF filt_text = MISSING THEN FNone
    ELSE FList(Split(filt_text, ";"))

(* Reader._parse_filter                                                    *)
parse_filter(filt_text) ==
    IF filt_text = MISSING THEN FNone
    ELSE IF filt_text = PASS THEN FList(<<>>)
    ELSE FList(Split(filt_text, ";"))

(* The characters of the FILTER texts.                                     *)
FilterChars == { ".", ";", "P", "A", "S", "q" }

FiltInit ==
    /\ \E l \in 0..MaxFilterLen : filt_str \in [1..l -> FilterChars]
    /\ filt = FNone
    /\ fpc = "start"

FiltIdle ==
    /\ filt_str = <<>>
    /\ filt = FNone
    /\ fpc = "idle"

(* filt = self._parse_filter(row[5])                                       *)
ParseFilter ==
    /\ fpc = "start"
    /\ filt' = parse_filter(filt_str)
    /\ fpc' = "parsed"
    /\ UNCHANGED filt_str
    /\ UNCHANGED notFilt

-----------------------------------------------------------------------------
(* parser.py: Reader -- splitting a line, numbers                          *)

TAB == "<TAB>"
SP == "<SP>"
NL == "<NL>"

Whitespace == { TAB, SP, NL }

(* str.lstrip() / str.rstrip() / str.strip()                               *)
RECURSIVE LStrip(_)
LStrip(text) ==
    IF text # <<>> /\ Head(text) \in Whitespace THEN LStrip(Tail(text)) ELSE text

RECURSIVE RStrip(_)
RStrip(text) ==
    IF text # <<>> /\ text[Len(text)] \in Whitespace
    THEN RStrip(SubSeq(text, 1, Len(text) - 1))
    ELSE text

Strip(text) == LStrip(RStrip(text))

(* The length of the run of spaces that text starts with.                  *)
RECURSIVE SpaceRun(_)
SpaceRun(text) ==
    IF text # <<>> /\ Head(text) = SP THEN 1 + SpaceRun(Tail(text)) ELSE 0

(* self._row_pattern.split(text): the separator is one tab, or, unless     *)
(* strict_whitespace, a run of spaces.                                     *)
RECURSIVE RowSplitFrom(_, _, _)
RowSplitFrom(text, piece, strict) ==
    IF text = <<>> THEN << piece >>
    ELSE IF Head(text) = TAB
         THEN << piece >> \o RowSplitFrom(Tail(text), <<>>, strict)
    ELSE IF Head(text) = SP /\ ~strict
         THEN << piece >>
                \o RowSplitFrom(SubSeq(text, SpaceRun(text) + 1, Len(text)),
                                <<>>, strict)
    ELSE RowSplitFrom(Tail(text), Append(piece, Head(text)), strict)

RowSplit(text, strict) == RowSplitFrom(text, <<>>, strict)

(* str.split(sep, 1)                                                       *)
SplitFirst(text, sep) ==
    IF \A i \in 1..Len(text) : text[i] # sep
    THEN << text >>
    ELSE LET at == CHOOSE i \in 1..Len(text) :
                      text[i] = sep /\ \A j \in 1..(i - 1) : text[j] # sep
         IN  << SubSeq(text, 1, at - 1), SubSeq(text, at + 1, Len(text)) >>

(* The numerals of the model and the integers they denote.  A number is    *)
(* written as one symbol; a text of any other shape is not a number.       *)
IntTable ==
    ("0" :> 0) @@ ("1" :> 1) @@ ("5" :> 5) @@ ("9" :> 9) @@ ("31" :> 31)
    @@ ("100" :> 100)

(* Whether int(text) returns, rather than raising ValueError.              *)
CanInt(text) == Len(text) = 1 /\ text[1] \in DOMAIN IntTable

(* int(text)                                                               *)
IntOf(text) == IntTable[text[1]]

(* str(n) for an integer n                                                 *)
IntStr(n) == << CHOOSE sym \in DOMAIN IntTable : IntTable[sym] = n >>

(* The numerals float() accepts and the repr of the float they denote; a   *)
(* float is held as its repr.                                              *)
FloatTable ==
    ("0" :> "0.0") @@ ("1" :> "1.0") @@ ("0.0" :> "0.0") @@ ("1.0" :> "1.0")
    @@ ("5" :> "5.0") @@ ("9" :> "9.0") @@ ("31" :> "31.0") @@ ("100" :> "100.0")
    @@ ("0.5" :> "0.5") @@ ("0.0031" :> "0.0031")
    @@ ("5.0" :> "5.0") @@ ("9.0" :> "9.0") @@ ("31.0" :> "31.0")
    @@ ("100.0" :> "100.0")

(* Whether float(text) returns, rather than raising ValueError.            *)
CanFloat(text) == Len(text) = 1 /\ text[1] \in DOMAIN FloatTable

(* float(text)                                                             *)
FloatOf(text) == FloatTable[text[1]]

(* str(x) for a float x                                                    *)
FloatStr(x) == << x >>

-----------------------------------------------------------------------------
(* parser.py: Reader._parse_info                                           *)

RESERVED_INFO ==
    ("RC" :> "String") @@ ("AC" :> "String") @@ ("ACC" :> "Float")
    @@ ("ACF" :> "Float")

(* An INFO definition of the header: the fields of _Info the codec reads.  *)
Info(id, num, type) == [id |-> id, num |-> num, type |-> type]

(* Number=. is held as None.                                               *)
NoneNum == -1

(* Whether the header defines ID, and its definition.                      *)
Defined(defs, ID) == \E n \in 1..Len(defs) : defs[n].id = ID
InfoDef(defs, ID) == defs[CHOOSE n \in 1..Len(defs) : defs[n].id = ID]

(* A decoded INFO value: True for a flag, a list of items, or one item.    *)
FlagVal == [kind |-> "flag", items |-> <<>>]
ListVal(items) == [kind |-> "list", items |-> items]
ScalarVal(item) == [kind |-> "scalar", items |-> << item >>]

(* An item: None, or an int, a float or a str held as its text.            *)
NoneItem == [t |-> "none", v |-> <<>>]
IntItem(text) == [t |-> "int", v |-> IntStr(IntOf(text))]
FloatItem(text) == [t |-> "float", v |-> FloatStr(FloatOf(text))]
StrItem(text) == [t |-> "str", v |-> text]

(* x in ['.', '']                                                          *)
Bad(x) == x = MISSING \/ x = <<>>

(* Reader._map(int, vals), _map(float, vals), _map(str, vals); the first   *)
(* two raise ValueError when CanMap is false.                              *)
CanMapInt(vals) == \A n \in 1..Len(vals) : Bad(vals[n]) \/ CanInt(vals[n])
CanMapFloat(vals) == \A n \in 1..Len(vals) : Bad(vals[n]) \/ CanFloat(vals[n])
MapInt(vals) ==
    [n \in 1..Len(vals) |-> IF Bad(vals[n]) THEN NoneItem ELSE IntItem(vals[n])]
MapFloat(vals) ==
    [n \in 1..Len(vals) |-> IF Bad(vals[n]) THEN NoneItem ELSE FloatItem(vals[n])]
MapStr(vals) ==
    [n \in 1..Len(vals) |-> IF Bad(vals[n]) THEN NoneItem ELSE StrItem(vals[n])]

(* The outcome of a call: a value, or the exception raised.                *)
Ok(val) == [ok |-> TRUE, err |-> "", val |-> val]
Raise(err) == [ok |-> FALSE, err |-> err, val |-> NoneRec]

(* Lines 305-314 as the faulty variant that looks an identifier up in the  *)
(* reserved table before the header. *)
EntryType_ReservedFirst(defs, entry) ==
    LET ID == entry[1]
    IN  IF Len(ID) = 1 /\ ID[1] \in DOMAIN RESERVED_INFO
        THEN RESERVED_INFO[ID[1]]
        ELSE IF Defined(defs, ID) THEN InfoDef(defs, ID).type
        ELSE IF Len(entry) > 1 THEN "String"
        ELSE "Flag"

(* Lines 305-314: the type of an entry, entry being [ID] or [ID, raw].     *)
EntryType(defs, entry) ==
    LET ID == entry[1]
    IN  IF Defined(defs, ID) THEN InfoDef(defs, ID).type
        ELSE IF Len(ID) = 1 /\ ID[1] \in DOMAIN RESERVED_INFO
             THEN RESERVED_INFO[ID[1]]
        ELSE IF Len(entry) > 1 THEN "String"
        ELSE "Flag"

(* Lines 316-336 as the faulty variant that decodes an Integer entry token *)
(* by token: an int where the token is one, a float where it is not. *)
EntryValue_PerToken(defs, entry) ==
    LET entry_type == EntryType(defs, entry)
        vals == Split(entry[2], ",")
    IN  IF entry_type = "Integer"
        THEN IF Len(entry) < 2 THEN Raise("IndexError")
             ELSE IF CanMapFloat(vals)
             THEN Ok([type |-> entry_type,
                      val |-> ListVal([n \in 1..Len(vals) |->
                                 IF Bad(vals[n]) THEN NoneItem
                                 ELSE IF CanInt(vals[n]) THEN IntItem(vals[n])
                                 ELSE FloatItem(vals[n])])])
             ELSE Raise("ValueError")
        ELSE IF entry_type = "Float"
        THEN IF Len(entry) < 2 THEN Raise("IndexError")
             ELSE IF CanMapFloat(vals) THEN Ok([type |-> entry_type, val |-> ListVal(MapFloat(vals))])
             ELSE Raise("ValueError")
        ELSE IF entry_type = "Flag"
        THEN Ok([type |-> entry_type, val |-> FlagVal])
        ELSE IF Len(entry) < 2 THEN Ok([type |-> "Flag", val |-> FlagVal])
        ELSE Ok([type |-> entry_type, val |-> ListVal(MapStr(vals))])

(* Lines 316-336 as the faulty variant that raises for a String or        *)
(* Character entry without a value. *)
EntryValue_NoDegrade(defs, entry) ==
    LET entry_type == EntryType(defs, entry)
        vals == Split(entry[2], ",")
    IN  IF entry_type = "Integer"
        THEN IF Len(entry) < 2 THEN Raise("IndexError")
             ELSE IF CanMapInt(vals) THEN Ok([type |-> entry_type, val |-> ListVal(MapInt(vals))])
             ELSE IF CanMapFloat(vals) THEN Ok([type |-> entry_type, val |-> ListVal(MapFloat(vals))])
             ELSE Raise("ValueError")
        ELSE IF entry_type = "Float"
        THEN IF Len(entry) < 2 THEN Raise("IndexError")
             ELSE IF CanMapFloat(vals) THEN Ok([type |-> entry_type, val |-> ListVal(MapFloat(vals))])
             ELSE Raise("ValueError")
        ELSE IF entry_type = "Flag"
        THEN Ok([type |-> entry_type, val |-> FlagVal])
        ELSE IF Len(entry) < 2 THEN Raise("IndexError")
        ELSE Ok([type |-> entry_type, val |-> ListVal(MapStr(vals))])

(* Lines 316-336: the value of an entry and the type it ends with.         *)
EntryValue(defs, entry) ==
    LET entry_type == EntryType(defs, entry)
        vals == Split(entry[2], ",")
    IN  IF entry_type = "Integer"
        THEN IF Len(entry) < 2 THEN Raise("IndexError")
             ELSE IF CanMapInt(vals) THEN Ok([type |-> entry_type, val |-> ListVal(MapInt(vals))])
             ELSE IF CanMapFloat(vals) THEN Ok([type |-> entry_type, val |-> ListVal(MapFloat(vals))])
             ELSE Raise("ValueError")
        ELSE IF entry_type = "Float"
        THEN IF Len(entry) < 2 THEN Raise("IndexError")
             ELSE IF CanMapFloat(vals) THEN Ok([type |-> entry_type, val |-> ListVal(MapFloat(vals))])
             ELSE Raise("ValueError")
        ELSE IF entry_type = "Flag"
        THEN Ok([type |-> entry_type, val |-> FlagVal])
        ELSE \* String, Character
             IF Len(entry) < 2 THEN Ok([type |-> "Flag", val |-> FlagVal])
             ELSE Ok([type |-> entry_type, val |-> ListVal(MapStr(vals))])

(* Lines 338-344 as the faulty variant that never unwraps. *)
EntryUnwrapped_Never(defs, entry) ==
    LET r == EntryValue(defs, entry)
    IN  IF ~r.ok THEN r ELSE Ok(r.val.val)

(* Lines 338-344: the value after the unwrapping of a Number=1 entry.      *)
EntryUnwrapped(defs, entry) ==
    LET r == EntryValue(defs, entry)
        ID == entry[1]
    IN  IF ~r.ok THEN r
        ELSE IF Defined(defs, ID) /\ InfoDef(defs, ID).num = 1
                /\ r.val.type # "Flag"
             THEN Ok(ScalarVal(r.val.val.items[1]))
        ELSE Ok(r.val.val)

(* The loop of lines 302-344 over entries, retdict so far being acc.       *)
RECURSIVE ParseEntries(_, _, _)
ParseEntries(defs, entries, acc) ==
    IF entries = <<>> THEN Ok(acc)
    ELSE LET entry == SplitFirst(Head(entries), "=")
             r == EntryUnwrapped(defs, entry)
         IN  IF ~r.ok THEN r
             ELSE ParseEntries(defs, Tail(entries), DictSet(acc, entry[1], r.val))

(* Reader._parse_info                                                      *)
parse_info(defs, info_str) ==
    IF info_str = MISSING THEN Ok(EmptyDict)
    ELSE ParseEntries(defs, Split(info_str, ";"), EmptyDict)

-----------------------------------------------------------------------------
(* parser.py: Reader.next                                                  *)

(* Reader.next on the line text: the Record, or the exception raised.      *)
Reader_next(defs, o, text) ==
    LET row == RowSplit(RStrip(Strip(text)), o.strict_whitespace)
        chrom == IF o.prepend_chr THEN << "chr" >> \o row[1] ELSE row[1]
        info == parse_info(defs, row[9])
    IN  IF Len(row) < 3 THEN Raise("IndexError")
        ELSE IF ~CanInt(row[3]) THEN Raise("ValueError")
        ELSE IF Len(row) < 7 THEN Raise("IndexError")
        ELSE IF ~CanFloat(row[7]) THEN Raise("ValueError")
        ELSE IF Len(row) < 8 THEN Raise("IndexError")
        ELSE IF ~CanInt(row[8]) THEN Raise("ValueError")
        ELSE IF Len(row) < 9 THEN Raise("IndexError")
        ELSE IF ~info.ok THEN info
        ELSE Ok(Record(chrom, row[2], IntOf(row[3]), row[4],
                       Split(row[5], ","), parse_filter(row[6]),
                       FloatOf(row[7]), IntOf(row[8]), info.val))

-----------------------------------------------------------------------------
(* parser.py: Writer                                                       *)

(* Python's < on two str values held as texts of ordered symbols.          *)
RECURSIVE TextLess(_, _)
TextLess(a, b) ==
    IF b = <<>> THEN FALSE
    ELSE IF a = <<>> THEN TRUE
    ELSE IF Head(a) # Head(b) THEN StrLess(Head(a), Head(b))
    ELSE TextLess(Tail(a), Tail(b))

(* self.info_order[field]: the rank of the field's definition in the       *)
(* header, len(template.infos) for a field the header does not define.     *)
info_order(defs, field) ==
    IF Defined(defs, field)
    THEN (CHOOSE n \in 1..Len(defs) : defs[n].id = field) - 1
    ELSE Len(defs)

(* order_key as the faulty variant that orders alphabetically only. *)
order_key_Alpha(defs, field) == << 0, field >>

(* order_key(field) of Writer._format_info                                 *)
order_key(defs, field) == << info_order(defs, field), field >>

(* Python's < on two (int, str) tuples.                                    *)
OrderKeyLess(k1, k2) ==
    \/ k1[1] < k2[1]
    \/ k1[1] = k2[1] /\ TextLess(k1[2], k2[2])

(* sorted(ids, key=order_key)                                              *)
RECURSIVE SortedByOrderKey(_, _)
SortedByOrderKey(defs, ids) ==
    IF ids = {} THEN <<>>
    ELSE LET first == CHOOSE x \in ids : \A y \in ids \ {x} :
                          OrderKeyLess(order_key(defs, x), order_key(defs, y))
         IN  << first >> \o SortedByOrderKey(defs, ids \ {first})

(* Writer._stringify: type(x).isinstance does not exist, so every call     *)
(* raises AttributeError.                                                  *)
stringify(x) == Raise("AttributeError")

(* Writer._stringify_pair; the bool values the Reader decodes are True.    *)
stringify_pair(x, y) ==
    IF y.kind = "flag" THEN Ok(x) ELSE stringify(y)

(* Writer._format_filter                                                   *)
format_filter(flt) ==
    IF flt = FList(<<>>) THEN Ok(PASS) ELSE stringify(flt)

(* Writer._format_info                                                     *)
format_info(defs, info) ==
    IF DOMAIN info = {} THEN Ok(MISSING)
    ELSE LET ids == SortedByOrderKey(defs, DOMAIN info)
             pairs == [n \in 1..Len(ids) |-> stringify_pair(ids[n], info[ids[n]])]
         IN  IF \E n \in 1..Len(ids) : ~pairs[n].ok
             THEN Raise("AttributeError")
             ELSE Ok(Join([n \in 1..Len(ids) |-> pairs[n].val], ";"))

(* str(x) for a list x of str: the reprs of the elements in brackets.      *)
RECURSIVE ReprItems(_)
ReprItems(x) ==
    IF x = <<>> THEN <<>>
    ELSE << "'" >> \o Head(x) \o << "'" >>
            \o (IF Len(x) > 1 THEN << ",", SP >> ELSE <<>>)
            \o ReprItems(Tail(x))

ListStr(x) == << "[" >> \o ReprItems(x) \o << "]" >>

(* Writer.write_record: the line written, or the exception raised.  The    *)
(* csv writer turns every field that is not a str into str(field) and      *)
(* joins the fields by tabs.                                               *)
write_record(defs, record) ==
    LET f == format_filter(record.FILTER)
        i == format_info(defs, record.INFO)
    IN  IF ~f.ok THEN f
        ELSE IF ~i.ok THEN i
        ELSE Ok(Join(<< record.CHROM, record.GENE, IntStr(record.POS),
                        record.REF, ListStr(record.ALT), f.val,
                        FloatStr(record.ALT_FREQ), IntStr(record.COVERAGE),
                        i.val >>, TAB) \o << NL >>)

-----------------------------------------------------------------------------
(* A Reader over one data line, and a Writer with the Reader's header.     *)

(* Reader(...) with the default options, and with both options set.        *)
ReaderOptions ==
    { [prepend_chr |-> FALSE, strict_whitespace |-> FALSE],
      [prepend_chr |-> TRUE, strict_whitespace |-> TRUE] }

(* Two headers: one that defines DB, DP, AF and AA, one that defines DP    *)
(* without a fixed Number, DB, and AF as one Float.                        *)
CodecHeaders ==
    { << Info(<<"DB">>, 0, "Flag"), Info(<<"DP">>, 1, "Integer"),
         Info(<<"AF">>, NoneNum, "Float"), Info(<<"AA">>, 1, "Character") >>,
      << Info(<<"DP">>, NoneNum, "Integer"), Info(<<"DB">>, 0, "Flag"),
         Info(<<"AF">>, 1, "Float") >> }

(* The INFO entries of the data lines.                                     *)
CodecEntries ==
    { << "DB" >>, << "XA" >>, << "DP", "=", "31" >>, << "AF", "=", "0.0031" >>,
      << "AC", "=", "tAa" >>, << "AA", "=", "K" >> }

(* The INFO column of n entries.                                           *)
InfoTexts(entries, n) ==
    IF n = 0 THEN { MISSING }
    ELSE { Join(es, ";") : es \in [1..n -> entries] }

(* A well-formed data line of nine columns.                                *)
DataLine(alt, filter, info) ==
    Join(<< <<"chr1">>, <<"RT">>, <<"5">>, <<"A">>, alt, filter,
            <<"0.5">>, <<"100">>, info >>, TAB)

CodecInit ==
    /\ infos \in CodecHeaders
    /\ opts \in ReaderOptions
    /\ \E alt \in { <<"K">>, <<"K", ",", "R">> },
          filter \in { MISSING, PASS, <<"q10">> },
          n \in 0..MaxInfoEntries :
         \E info \in InfoTexts(CodecEntries, n) :
            line = DataLine(alt, filter, info)
    /\ rec = Raise("")
    /\ out = Raise("")
    /\ rec2 = Raise("")
    /\ cpc = "start"

(* The identifiers of the flags of the data lines.                         *)
FlagIds == { <<"DB">>, <<"H2">>, <<"XA">>, <<"XB">> }

(* The headers that define at most MaxDefs of the flags, in any order.     *)
FlagHeaders ==
    UNION { { [n \in 1..l |-> Info(ids[n], 0, "Flag")] :
                ids \in { s \in [1..l -> FlagIds] :
                            \A a, b \in 1..l : a # b => s[a] # s[b] } } :
            l \in 0..MaxDefs }

(* Data lines that pass every filter and hold flags only, under a header   *)
(* that defines some of the flags.                                         *)
OrderInit ==
    /\ infos \in FlagHeaders
    /\ opts = [prepend_chr |-> FALSE, strict_whitespace |-> FALSE]
    /\ \E n \in 1..MaxFlags :
         \E info \in InfoTexts(FlagIds, n) :
            line = DataLine(<<"K">>, PASS, info)
    /\ rec = Raise("")
    /\ out = Raise("")
    /\ rec2 = Raise("")
    /\ cpc = "start"

(* Data lines with too few, nine or too many columns, and with a          *)
(* number, the missing-value token or a word in each numeric column.       *)
RowColumns(pos, alt_freq, coverage) ==
    << <<"chr1">>, <<"RT">>, pos, <<"A">>, <<"K">>, PASS, alt_freq, coverage,
       <<"DB">>, <<"XA">>, <<"XB">> >>

RowInit ==
    /\ infos = << Info(<<"DB">>, 0, "Flag") >>
    /\ opts \in ReaderOptions
    /\ \E n \in (9 - MaxColumnsOff)..(9 + MaxColumnsOff),
          pos \in { <<"5">>, MISSING, <<"RT">> },
          alt_freq \in { <<"0.5">>, MISSING, <<"RT">> },
          coverage \in { <<"100">>, MISSING, <<"RT">> } :
         line = Join(SubSeq(RowColumns(pos, alt_freq, coverage), 1, n), TAB)
    /\ rec = Raise("")
    /\ out = Raise("")
    /\ rec2 = Raise("")
    /\ cpc = "start"

(* Three headers for the decoding of INFO: one that declares the reserved  *)
(* identifiers AC and ACF with types other than the reserved ones, one     *)
(* that declares DP as one Integer and RC as a Flag, and one that declares *)
(* nothing.                                                                *)
InfoHeaders ==
    { << Info(<<"AC">>, 1, "Integer"), Info(<<"AA">>, 1, "Character"),
         Info(<<"DP">>, NoneNum, "Integer"), Info(<<"ACF">>, 1, "String") >>,
      << Info(<<"DP">>, 1, "Integer"), Info(<<"RC">>, NoneNum, "Flag"),
         Info(<<"ST">>, NoneNum, "String") >>,
      <<>> }

(* INFO entries with and without a value, of reserved, declared and        *)
(* unknown identifiers, with integers, floats, words, the missing-value    *)
(* token and the empty string as the comma-separated tokens.               *)
InfoEntries ==
    { << "AC" >>, << "AC", "=", "5" >>, << "ACF" >>, << "ACF", "=", "0.5" >>,
      << "RC" >>, << "XA" >>, << "XA", "=", "5" >>, << "AA" >>,
      << "AA", "=", "K" >>, << "ST" >>, << "DP" >>, << "DP", "=" >>,
      << "DP", "=", "5", ",", "9" >>, << "DP", "=", "5", ",", "0.5" >>,
      << "DP", "=", "5", ",", "." >>, << "DP", "=", "0.5", ",", ",", "1" >>,
      << "DP", "=", "5", ",", "tAa" >> }

InfoInit ==
    /\ infos \in InfoHeaders
    /\ opts = [prepend_chr |-> FALSE, strict_whitespace |-> FALSE]
    /\ \E n \in 0..MaxInfoEntries :
         \E info \in InfoTexts(InfoEntries, n) :
            line = DataLine(<<"K">>, PASS, info)
    /\ rec = Raise("")
    /\ out = Raise("")
    /\ rec2 = Raise("")
    /\ cpc = "start"

CodecIdle ==
    /\ infos = <<>>
    /\ opts = [prepend_chr |-> FALSE, strict_whitespace |-> FALSE]
    /\ line = <<>>
    /\ rec = Raise("")
    /\ out = Raise("")
    /\ rec2 = Raise("")
    /\ cpc = "idle"

(* record = reader.next()                                                  *)
ReaderNext ==
    /\ cpc = "start"
    /\ rec' = Reader_next(infos, opts, line)
    /\ cpc' = "read"
    /\ UNCHANGED <<infos, opts, line, out, rec2>>
    /\ UNCHANGED notCodec

(* writer.write_record(record)                                             *)
WriteRecord ==
    /\ cpc = "read"
    /\ rec.ok
    /\ out' = write_record(infos, rec.val)
    /\ cpc' = "written"
    /\ UNCHANGED <<infos, opts, line, rec, rec2>>
    /\ UNCHANGED notCodec

(* A Reader with the same header and options decodes the written line.     *)
ReadBack ==
    /\ cpc = "written"
    /\ out.ok
    /\ rec2' = Reader_next(infos, opts, out.val)
    /\ cpc' = "reread"
    /\ UNCHANGED <<infos, opts, line, rec, out>>
    /\ UNCHANGED notCodec

CodecNext == ReaderNext \/ WriteRecord \/ ReadBack

-----------------------------------------------------------------------------
(* parser.py: the header -- _aavf_metadata_parser, Reader._parse_metainfo  *)

(* A header line is a text whose symbols are the characters # = < > , "    *)
(* and the words between them.                                             *)
HASH == "#"
QUOTE == "\""

(* str.startswith(prefix)                                                  *)
StartsWith(text, prefix) ==
    Len(text) >= Len(prefix) /\ SubSeq(text, 1, Len(prefix)) = prefix

(* Matching a regular expression from the left: a position is the index   *)
(* of the next symbol to match, 0 when the match has failed.  LitAt        *)
(* matches a literal, SkipSpace matches \s*, FindFrom finds the end of a   *)
(* [^c]* run that is followed by c.                                        *)
LitAt(text, pos, lit) ==
    IF pos > 0 /\ pos + Len(lit) - 1 <= Len(text)
          /\ SubSeq(text, pos, pos + Len(lit) - 1) = lit
    THEN pos + Len(lit)
    ELSE 0

RECURSIVE SkipSpace(_, _)
SkipSpace(text, pos) ==
    IF pos > 0 /\ pos <= Len(text) /\ text[pos] \in Whitespace
    THEN SkipSpace(text, pos + 1)
    ELSE pos

FindFrom(text, pos, sym) ==
    IF pos > 0 /\ \E i \in pos..Len(text) : text[i] = sym
    THEN CHOOSE i \in pos..Len(text) :
             text[i] = sym /\ \A j \in pos..(i - 1) : text[j] # sym
    ELSE 0

(* Type=(Integer|Float|Flag|Character|String)                              *)
InfoTypes == { "Integer", "Float", "Flag", "Character", "String" }

(* _aavf_metadata_parser.aavf_field_count: number is the text of the       *)
(* Number group, empty when the group did not match.                       *)
aavf_field_count(number) ==
    IF number = <<>> THEN NoneNum
    ELSE IF number = MISSING THEN NoneNum
    ELSE IntOf(number)

(* read_info as the faulty variant that takes a line that does not match   *)
(* as the definition of a flag named by the line.                          *)
read_info_Lenient(info_string) == Ok(Info(info_string, 0, "Flag"))

(* _aavf_metadata_parser.read_info: info_pattern is matched from the left  *)
(* of the line; the header lines of the model carry no Source and no       *)
(* Version, so that these optional groups match nothing.                   *)
read_info(info_string) ==
    LET t == info_string
        p1 == LitAt(t, 1, << HASH, HASH, "INFO", "=", "<", "ID", "=" >>)
        c1 == FindFrom(t, p1, ",")
        p2 == LitAt(t, SkipSpace(t, IF c1 > p1 THEN c1 + 1 ELSE 0),
                    << "Number", "=" >>)
        hasNum == p2 > 0 /\ p2 <= Len(t)
                     /\ (t[p2] \in DOMAIN IntTable \/ t[p2] = ".")
        p3 == LitAt(t, IF hasNum THEN p2 + 1 ELSE p2, << "," >>)
        p4 == LitAt(t, SkipSpace(t, p3), << "Type", "=" >>)
        okType == p4 > 0 /\ p4 <= Len(t) /\ t[p4] \in InfoTypes
        p5 == LitAt(t, IF okType THEN p4 + 1 ELSE 0, << "," >>)
        p6 == LitAt(t, SkipSpace(t, p5), << "Description", "=", QUOTE >>)
        q == FindFrom(t, p6, QUOTE)
        p7 == LitAt(t, IF q > 0 THEN q + 1 ELSE 0, << ">" >>)
    IN  IF p7 = 0 THEN Raise("SyntaxError")
        ELSE Ok(Info(SubSeq(t, p1, c1 - 1),
                     aavf_field_count(IF hasNum THEN << t[p2] >> ELSE <<>>),
                     t[p4]))

(* _aavf_metadata_parser.read_filter: the id of the filter defined.        *)
read_filter(filter_string) ==
    LET t == filter_string
        p1 == LitAt(t, 1, << HASH, HASH, "FILTER", "=", "<", "ID", "=" >>)
        c1 == FindFrom(t, p1, ",")
        p2 == LitAt(t, SkipSpace(t, IF c1 > p1 THEN c1 + 1 ELSE 0),
                    << "Description", "=", QUOTE >>)
        q == FindFrom(t, p2, QUOTE)
        p3 == LitAt(t, IF q > 0 THEN q + 1 ELSE 0, << ">" >>)
    IN  IF p3 = 0 THEN Raise("SyntaxError")
        ELSE Ok(SubSeq(t, p1, c1 - 1))

(* str.lstrip('#')                                                         *)
RECURSIVE LStripHash(_)
LStripHash(text) ==
    IF text # <<>> /\ Head(text) = HASH THEN LStripHash(Tail(text)) ELSE text

(* str.strip('[<>]')                                                       *)
RECURSIVE StripBrackets(_)
StripBrackets(text) ==
    IF text # <<>> /\ Head(text) \in { "[", "<", ">", "]" }
    THEN StripBrackets(Tail(text))
    ELSE IF text # <<>> /\ text[Len(text)] \in { "[", "<", ">", "]" }
    THEN StripBrackets(SubSeq(text, 1, Len(text) - 1))
    ELSE text

(* val[k] = v on an OrderedDict held as the sequence of its (key, value)   *)
(* pairs: a new key goes last, a known key keeps its place.                *)
odict_put(val, k, v) ==
    IF \E n \in 1..Len(val) : val[n][1] = k
    THEN [n \in 1..Len(val) |-> IF val[n][1] = k THEN << k, v >> ELSE val[n]]
    ELSE Append(val, << k, v >>)

(* The loop of read_meta_hash as the faulty variant that ends a value at   *)
(* every comma, quoted or not.                                             *)
RECURSIVE hash_scan_NoQuote(_, _, _, _, _)
hash_scan_NoQuote(chars, state, k, v, val) ==
    IF chars = <<>>
    THEN IF k # <<>> THEN odict_put(val, k, v) ELSE val
    ELSE LET c == Head(chars)
             rest == Tail(chars)
         IN  IF state = 0
             THEN IF c = "=" THEN hash_scan_NoQuote(rest, 1, k, v, val)
                  ELSE hash_scan_NoQuote(rest, 0, Append(k, c), v, val)
             ELSE IF c = ","
                  THEN hash_scan_NoQuote(rest, 0, <<>>, <<>>, odict_put(val, k, v))
                  ELSE hash_scan_NoQuote(rest, 1, k, Append(v, c), val)

(* Lines 137-163 of read_meta_hash: the loop over the characters left,     *)
(* from the state (0 in a key, 1 in a value, 2 in a quoted value), the key *)
(* k and the value v read so far and the dict val, and the last item.      *)
RECURSIVE hash_scan(_, _, _, _, _)
hash_scan(chars, state, k, v, val) ==
    IF chars = <<>>
    THEN IF k # <<>> THEN odict_put(val, k, v) ELSE val
    ELSE LET c == Head(chars)
             rest == Tail(chars)
         IN  IF state = 0
             THEN IF c = "=" THEN hash_scan(rest, 1, k, v, val)
                  ELSE hash_scan(rest, 0, Append(k, c), v, val)
             ELSE IF state = 1
             THEN IF v = <<>> /\ c = QUOTE
                  THEN hash_scan(rest, 2, k, Append(v, c), val)
                  ELSE IF c = ","
                  THEN hash_scan(rest, 0, <<>>, <<>>, odict_put(val, k, v))
                  ELSE hash_scan(rest, 1, k, Append(v, c), val)
             ELSE IF c = QUOTE
                  THEN hash_scan(rest, 1, k, Append(v, c), val)
                  ELSE hash_scan(rest, 2, k, Append(v, c), val)

(* A metadata value that is a dict, not a str: a mark and the (key, value) *)
(* pairs of the OrderedDict; isinstance(val, dict); val.items().           *)
DictVal(pairs) == << "<dict>" >> \o pairs
IsDict(val) == val # <<>> /\ val[1] = "<dict>"
DictItems(val) == Tail(val)

(* _aavf_metadata_parser.read_meta_hash: the pair (key, val), val being    *)
(* the OrderedDict of the items between the brackets.                      *)
read_meta_hash(meta_string) ==
    LET items == SplitFirst(meta_string, "=")
    IN  << LStripHash(items[1]),
           DictVal(hash_scan(StripBrackets(items[2]), 0, <<>>, <<>>, <<>>)) >>

(* _aavf_metadata_parser.read_meta: the pair (key, val).  A line that      *)
(* matches ##.+=< is read by read_meta_hash; a line that matches           *)
(* ##(.+?)=(.+) gives its two groups; any other line is a key with the     *)
(* value 'none'.                                                           *)
read_meta(meta_string) ==
    LET t == meta_string
        IsHash == /\ StartsWith(t, << HASH, HASH >>)
                  /\ \E i \in 4..(Len(t) - 1) : t[i] = "=" /\ t[i + 1] = "<"
        IsPair == /\ StartsWith(t, << HASH, HASH >>)
                  /\ \E i \in 4..(Len(t) - 1) : t[i] = "="
        at == CHOOSE i \in 4..(Len(t) - 1) :
                  t[i] = "=" /\ \A j \in 4..(i - 1) : t[j] # "="
    IN  IF IsHash THEN read_meta_hash(t)
        ELSE IF IsPair THEN << SubSeq(t, 3, at - 1), SubSeq(t, at + 1, Len(t)) >>
        ELSE << LStripHash(t), << "none" >> >>

SINGULAR_METADATA == { << "fileformat" >>, << "fileDate" >>, << "reference" >> }

(* A value of self.metadata: one value, or the list of the values.         *)
MetaOne(val) == [single |-> TRUE, vals |-> << val >>]
MetaList(vals) == [single |-> FALSE, vals |-> vals]

(* Lines 263-268: self.metadata after a line that gives (key, val).        *)
metadata_put(md, key, val) ==
    IF key \in SINGULAR_METADATA THEN DictSet(md, key, MetaOne(val))
    ELSE IF key \notin DOMAIN md THEN DictSet(md, key, MetaList(<< val >>))
    ELSE DictSet(md, key, MetaList(Append(md[key].vals, val)))

(* self.infos[key] = val: a new key goes last, a known key keeps its place *)
infos_put(defs, info) ==
    IF Defined(defs, info.id)
    THEN [n \in 1..Len(defs) |-> IF defs[n].id = info.id THEN info ELSE defs[n]]
    ELSE Append(defs, info)

(* self.filters[key] = val, of which the keys are held.                    *)
filters_put(flts, id) ==
    IF \E n \in 1..Len(flts) : flts[n] = id THEN flts ELSE Append(flts, id)

(* Lines 251-268: the header state after the line, or the exception.       *)
header_step(text, defs, flts, md) ==
    IF StartsWith(text, << HASH, HASH, "INFO" >>)
    THEN LET r == read_info(text)
         IN  IF ~r.ok THEN r
             ELSE Ok([infos |-> infos_put(defs, r.val), filters |-> flts,
                      metadata |-> md])
    ELSE IF StartsWith(text, << HASH, HASH, "FILTER" >>)
    THEN LET r == read_filter(text)
         IN  IF ~r.ok THEN r
             ELSE Ok([infos |-> defs, filters |-> filters_put(flts, r.val),
                      metadata |-> md])
    ELSE LET kv == read_meta(text)
         IN  Ok([infos |-> defs, filters |-> flts,
                 metadata |-> metadata_put(md, kv[1], kv[2])])

(* self.reader: the lines of the stream, stripped, the blank ones left     *)
(* out.  NextIdx is the index of the line next(self.reader) returns after  *)
(* pos lines are consumed, 0 when it raises StopIteration.                 *)
NextIdx(pos) ==
    IF \E i \in (pos + 1)..Len(stream) : Strip(stream[i]) # <<>>
    THEN CHOOSE i \in (pos + 1)..Len(stream) :
             /\ Strip(stream[i]) # <<>>
             /\ \A j \in (pos + 1)..(i - 1) : Strip(stream[j]) = <<>>
    ELSE 0

(* What is left of a symbol of several characters without its first one.   *)
RestOfSymbol == ("chr1" :> "hr1") @@ ("CHROM" :> "HROM")

(* line[1:]                                                                *)
DropFirstChar(text) ==
    IF Head(text) \in DOMAIN RestOfSymbol
    THEN << RestOfSymbol[Head(text)] >> \o Tail(text)
    ELSE Tail(text)

(* fields[:9]                                                              *)
FirstNine(fields) == SubSeq(fields, 1, IF Len(fields) < 9 THEN Len(fields) ELSE 9)

(* Reader.__init__ up to the first line = next(self.reader) of             *)
(* _parse_metainfo.                                                        *)
ReaderInit ==
    /\ hpc = "new"
    /\ metadata' = EmptyDict
    /\ infos' = <<>>
    /\ filters' = <<>>
    /\ LET i == NextIdx(0)
       IN  IF i = 0
           THEN /\ hpc' = "failed"
                /\ herr' = "StopIteration"
                /\ spos' = Len(stream)
                /\ UNCHANGED hline
           ELSE /\ hpc' = "meta"
                /\ hline' = Strip(stream[i])
                /\ spos' = i
                /\ UNCHANGED herr
    /\ UNCHANGED <<stream, header_lines, column_headers, got>>
    /\ UNCHANGED writerVars
    /\ UNCHANGED notHeader

(* One pass of the loop of _parse_metainfo over a line that starts with ## *)
MetaLine ==
    /\ hpc = "meta"
    /\ StartsWith(hline, << HASH, HASH >>)
    /\ header_lines' = Append(header_lines, hline)
    /\ LET r == header_step(hline, infos, filters, metadata)
           i == NextIdx(spos)
       IN  IF ~r.ok
           THEN /\ hpc' = "failed"
                /\ herr' = r.err
                /\ UNCHANGED <<infos, filters, metadata, hline, spos>>
           ELSE /\ infos' = r.val.infos
                /\ filters' = r.val.filters
                /\ metadata' = r.val.metadata
                /\ IF i = 0
                   THEN /\ hpc' = "failed"
                        /\ herr' = "StopIteration"
                        /\ spos' = Len(stream)
                        /\ UNCHANGED hline
                   ELSE /\ hline' = Strip(stream[i])
                        /\ spos' = i
                        /\ UNCHANGED <<hpc, herr>>
    /\ UNCHANGED <<stream, column_headers, got>>
    /\ UNCHANGED writerVars
    /\ UNCHANGED notHeader

(* Lines 272-273: the first line that does not start with ## gives the     *)
(* column headers, and the Reader is constructed.                          *)
ColumnHeader ==
    /\ hpc = "meta"
    /\ ~StartsWith(hline, << HASH, HASH >>)
    /\ column_headers' =
           FirstNine(RowSplit(DropFirstChar(hline), opts.strict_whitespace))
    /\ hpc' = "ready"
    /\ UNCHANGED <<stream, spos, hline, metadata, filters, header_lines,
                   got, herr, infos>>
    /\ UNCHANGED writerVars
    /\ UNCHANGED notHeader

(* reader.next() on the Reader constructed.                                *)
HeaderNext ==
    /\ hpc = "ready"
    /\ LET i == NextIdx(spos)
       IN  IF i = 0
           THEN /\ hpc' = "eof"
                /\ spos' = Len(stream)
                /\ UNCHANGED got
           ELSE /\ got' = Append(got, Reader_next(infos, opts, Strip(stream[i])))
                /\ spos' = i
                /\ UNCHANGED hpc
    /\ UNCHANGED <<stream, hline, metadata, filters, header_lines,
                   column_headers, herr, infos>>
    /\ UNCHANGED writerVars
    /\ UNCHANGED notHeader

ReaderSteps == ReaderInit \/ MetaLine \/ ColumnHeader \/ HeaderNext

(* The lines of the files of the model.                                    *)
MetaText(key, val) == << HASH, HASH >> \o key \o << "=" >> \o val

InfoText(id, number, type) ==
    << HASH, HASH, "INFO", "=", "<", "ID", "=" >> \o id
        \o << ",", "Number", "=" >> \o number
        \o << ",", "Type", "=", type, ",", "Description", "=",
              QUOTE, "d", QUOTE, ">" >>

FilterText(id, desc) ==
    << HASH, HASH, "FILTER", "=", "<", "ID", "=" >> \o id \o desc \o << ">" >>

ColumnLine ==
    << HASH >>
        \o Join(<< <<"CHROM">>, <<"GENE">>, <<"POS">>, <<"REF">>, <<"ALT">>,
                   <<"FILTER">>, <<"ALT_FREQ">>, <<"COVERAGE">>, <<"INFO">> >>,
                TAB)

(* A metadata line, a well-formed and a malformed INFO line (Type=Int), a  *)
(* well-formed and a malformed FILTER line (no Description), the line of   *)
(* the column headers, a data line and a blank line.                       *)
HeaderLines ==
    { MetaText(<<"fileformat">>, <<"v1">>),
      InfoText(<<"DP">>, <<"1">>, "Integer"),
      InfoText(<<"DP">>, <<"1">>, "Int"),
      FilterText(<<"q10">>, << ",", "Description", "=", QUOTE, "d", QUOTE >>),
      FilterText(<<"q10">>, <<>>),
      ColumnLine,
      DataLine(<<"K">>, PASS, << "DP", "=", "31" >>),
      << SP >> }

(* Metadata lines: keys of SINGULAR_METADATA and other keys, each with     *)
(* two values.                                                             *)
MetaLines ==
    { MetaText(<<"fileformat">>, <<"v1">>), MetaText(<<"fileformat">>, <<"v2">>),
      MetaText(<<"reference">>, <<"r1">>),
      MetaText(<<"source">>, <<"p1">>), MetaText(<<"source">>, <<"p2">>),
      MetaText(<<"contig">>, <<"c1">>) }

HeaderStart ==
    /\ spos = 0
    /\ hline = <<>>
    /\ metadata = EmptyDict
    /\ filters = <<>>
    /\ header_lines = <<>>
    /\ column_headers = <<>>
    /\ got = <<>>
    /\ hpc = "new"
    /\ herr = ""
    /\ wstream = <<>>
    /\ werr = ""
    /\ reader2 = Raise("")
    /\ infos = <<>>
    /\ opts = [prepend_chr |-> FALSE, strict_whitespace |-> FALSE]
    /\ line = <<>>
    /\ rec = Raise("")
    /\ out = Raise("")
    /\ rec2 = Raise("")
    /\ cpc = "idle"

(* A file of at most MaxStream lines, of any kind in any order.            *)
HeaderInit ==
    /\ \E l \in 0..MaxStream : stream \in [1..l -> HeaderLines]
    /\ HeaderStart

(* A file of at most MaxMetaLines metadata lines and the column headers.   *)
MetaInit ==
    /\ \E l \in 0..MaxMetaLines :
         \E metas \in [1..l -> MetaLines] :
            stream = Append(metas, ColumnLine)
    /\ HeaderStart

(* The keys and the values of the items of a bracketed metadata line:      *)
(* plain, empty, with an =, and quoted with a comma, with a > and empty.   *)
HashKeys == { << "ID" >>, << "length" >>, << "assembly" >> }

HashValues ==
    { << "x" >>, <<>>, << "x", "=", "5" >>, << QUOTE, "a", ",", "b", QUOTE >>,
      << QUOTE, "a", ">", QUOTE >>, << QUOTE, QUOTE >> }

(* ##key=<k1=v1,k2=v2,...>                                                 *)
HashText(key, pairs) ==
    MetaText(key, << "<" >>
        \o Join([n \in 1..Len(pairs) |-> pairs[n][1] \o << "=" >> \o pairs[n][2]],
                ",")
        \o << ">" >>)

(* A file of one bracketed metadata line of at most MaxPairs items with    *)
(* different keys, and the column headers.                                 *)
HashInit ==
    /\ \E l \in 0..MaxPairs :
         \E pairs \in [1..l -> HashKeys \X HashValues] :
            /\ \A a, b \in 1..l : a # b => pairs[a][1] # pairs[b][1]
            /\ stream = << HashText(<<"contig">>, pairs), ColumnLine >>
    /\ HeaderStart

-----------------------------------------------------------------------------
(* parser.py: Writer.__init__ with a Reader as its template, and a Reader  *)
(* over what the Writer has written.  The INFO and FILTER lines of the     *)
(* model all have the description d and no Source and no Version.          *)

(* The keys of template.metadata in the order of the OrderedDict: that of  *)
(* the header lines which gave them.                                       *)
RECURSIVE metadata_keys(_, _)
metadata_keys(lines, keys) ==
    IF lines = <<>> THEN keys
    ELSE IF \/ StartsWith(Head(lines), << HASH, HASH, "INFO" >>)
            \/ StartsWith(Head(lines), << HASH, HASH, "FILTER" >>)
            \/ \E n \in 1..Len(keys) : keys[n] = read_meta(Head(lines))[1]
         THEN metadata_keys(Tail(lines), keys)
    ELSE metadata_keys(Tail(lines), Append(keys, read_meta(Head(lines))[1]))

(* Writer._fix_field_count, formatted into the line                        *)
fix_field_count(num) == IF num = NoneNum THEN MISSING ELSE IntStr(num)

(* The concatenation of sequences.                                         *)
RECURSIVE Concat(_)
Concat(seqs) == IF seqs = <<>> THEN <<>> ELSE Head(seqs) \o Concat(Tail(seqs))

(* Lines 436-445: the lines written for the metadata.                      *)
write_metadata(keys, md) ==
    Concat([n \in 1..Len(keys) |->
        LET key == keys[n]
            vals == md[key].vals
        IN  [m \in 1..Len(vals) |->
                (IF IsDict(vals[m])
                 THEN << HASH, HASH >> \o key \o << "=", "<" >>
                        \o Join([i \in 1..Len(DictItems(vals[m])) |->
                                    DictItems(vals[m])[i][1] \o << "=" >>
                                        \o DictItems(vals[m])[i][2]], ",")
                        \o << ">" >>
                 ELSE << HASH, HASH >> \o key \o << "=" >> \o vals[m])
                \o << NL >>]])

(* Lines 446-447: the lines written for the INFO definitions.              *)
write_infos(defs) ==
    [n \in 1..Len(defs) |->
        << HASH, HASH, "INFO", "=", "<", "ID", "=" >> \o defs[n].id
            \o << ",", "Number", "=" >> \o fix_field_count(defs[n].num)
            \o << ",", "Type", "=", defs[n].type, ",", "Description", "=",
                  QUOTE, "d", QUOTE, ">", NL >>]

(* Lines 448-449: the lines written for the FILTER definitions.            *)
write_filters(flts) ==
    [n \in 1..Len(flts) |->
        << HASH, HASH, "FILTER", "=", "<", "ID", "=" >> \o flts[n]
            \o << ",", "Description", "=", QUOTE, "d", QUOTE, ">", NL >>]

(* Writer._write_header: self.template.samples is read, an attribute that  *)
(* a Reader does not have, before anything is written.                     *)
write_header(cols) == Raise("AttributeError")

(* Writer.__init__: the lines written and the exception raised.            *)
Writer_init(keys, md, defs, flts, cols) ==
    LET h == write_header(cols)
    IN  [lines |-> write_metadata(keys, md) \o write_infos(defs)
                      \o write_filters(flts)
                      \o (IF h.ok THEN << h.val >> ELSE <<>>),
         err |-> h.err]

(* The loop of Reader._parse_metainfo over the lines rd of self.reader.    *)
RECURSIVE meta_loop(_, _, _, _, _)
meta_loop(rd, defs, flts, md, strict) ==
    IF rd = <<>> THEN Raise("StopIteration")
    ELSE IF StartsWith(Head(rd), << HASH, HASH >>)
    THEN LET r == header_step(Head(rd), defs, flts, md)
         IN  IF ~r.ok THEN r
             ELSE meta_loop(Tail(rd), r.val.infos, r.val.filters,
                            r.val.metadata, strict)
    ELSE Ok([metadata |-> md, infos |-> defs, filters |-> flts,
             column_headers |->
                 FirstNine(RowSplit(DropFirstChar(Head(rd)), strict))])

(* Reader(fsock) over the lines of a text: the header read, or the         *)
(* exception that leaves __init__.                                         *)
Reader_init(lines, strict) ==
    meta_loop(SelectSeq([n \in 1..Len(lines) |-> Strip(lines[n])],
                        LAMBDA t : t # <<>>),
              <<>>, <<>>, EmptyDict, strict)

(* writer = Writer(out, reader)                                            *)
WriterNew ==
    /\ hpc = "ready"
    /\ LET w == Writer_init(metadata_keys(header_lines, <<>>), metadata,
                            infos, filters, column_headers)
       IN  /\ wstream' = w.lines
           /\ werr' = w.err
    /\ hpc' = "written"
    /\ UNCHANGED <<stream, spos, hline, metadata, filters, header_lines,
                   column_headers, got, herr, infos, reader2>>
    /\ UNCHANGED notHeader

(* out.seek(0); Reader(out)                                                *)
ReaderAgain ==
    /\ hpc = "written"
    /\ reader2' = Reader_init(wstream, opts.strict_whitespace)
    /\ hpc' = "reread"
    /\ UNCHANGED <<stream, spos, hline, metadata, filters, header_lines,
                   column_headers, got, herr, infos, wstream, werr>>
    /\ UNCHANGED notHeader

WriterSteps == ReaderInit \/ MetaLine \/ ColumnHeader \/ WriterNew \/ ReaderAgain

(* Header lines of every kind: metadata of a singular and of another key,  *)
(* a bracketed line, INFO with a Number and with Number=., and FILTER.     *)
WriterLines ==
    { MetaText(<<"fileformat">>, <<"v1">>),
      MetaText(<<"source">>, <<"p1">>),
      HashText(<<"contig">>, << << <<"ID">>, <<"x">> >>,
                                << <<"length">>, << QUOTE, "a", ",", "b", QUOTE >> >> >>),
      InfoText(<<"DP">>, <<"1">>, "Integer"),
      InfoText(<<"AF">>, MISSING, "Float"),
      FilterText(<<"q10">>, << ",", "Description", "=", QUOTE, "d", QUOTE >>) }

(* A file of at most MaxWriterLines header lines and the column headers.   *)
WriterInit ==
    /\ \E l \in 0..MaxWriterLines :
         \E lines \in [1..l -> WriterLines] :
            stream = Append(lines, ColumnLine)
    /\ HeaderStart

(* No Reader is constructed.                                               *)
HeaderIdle ==
    /\ stream = <<>>
    /\ spos = 0
    /\ hline = <<>>
    /\ metadata = EmptyDict
    /\ filters = <<>>
    /\ header_lines = <<>>
    /\ column_headers = <<>>
    /\ got = <<>>
    /\ hpc = "idle"
    /\ herr = ""
    /\ wstream = <<>>
    /\ werr = ""
    /\ reader2 = Raise("")

-----------------------------------------------------------------------------
(* Specifications.                                                         *)

Init == WalkInit /\ RecIdle /\ AAVFIdle /\ FiltIdle /\ CodecIdle
    /\ HeaderIdle

Next == WalkNext

(* walk_together over any readers.                                         *)
Spec == Init /\ [][Next]_vars

InitSame == SameInit /\ RecIdle /\ AAVFIdle /\ FiltIdle /\ CodecIdle
    /\ HeaderIdle

(* walk_together over identical readers.                                   *)
SpecSame == InitSame /\ [][WalkNext]_vars

InitFair == FairInit /\ RecIdle /\ AAVFIdle /\ FiltIdle /\ CodecIdle
    /\ HeaderIdle

(* walk_together over any readers, iterated by a caller that goes on       *)
(* until the generator returns.                                            *)
SpecFair == InitFair /\ [][Next]_vars /\ WF_vars(Next)

InitRecord == RecInit /\ WalkIdle /\ AAVFIdle /\ FiltIdle /\ CodecIdle
    /\ HeaderIdle

(* Two Record objects: comparison, add_filter, add_info.                   *)
SpecRecord == InitRecord /\ [][RecNext]_vars

InitAAVF == AAVFInit /\ WalkIdle /\ RecIdle /\ FiltIdle /\ CodecIdle
    /\ HeaderIdle

(* An AAVF object and the next calls made on it.                           *)
SpecAAVF == InitAAVF /\ [][AAVFNext]_vars

InitFilter == FiltInit /\ WalkIdle /\ RecIdle /\ AAVFIdle /\ CodecIdle
    /\ HeaderIdle

(* Reader._parse_filter on a FILTER text.                                  *)
SpecFilter == InitFilter /\ [][ParseFilter]_vars

InitCodec == CodecInit /\ WalkIdle /\ RecIdle /\ AAVFIdle /\ FiltIdle
    /\ HeaderIdle

(* A data line decoded, written and decoded again.                         *)
SpecCodec == InitCodec /\ [][CodecNext]_vars

InitOrder == OrderInit /\ WalkIdle /\ RecIdle /\ AAVFIdle /\ FiltIdle
    /\ HeaderIdle

(* A data line of flags decoded, written and decoded again.                *)
SpecOrder == InitOrder /\ [][CodecNext]_vars

InitRow == RowInit /\ WalkIdle /\ RecIdle /\ AAVFIdle /\ FiltIdle
    /\ HeaderIdle

(* Reader.next on a data line that may be malformed.                       *)
SpecRow == InitRow /\ [][ReaderNext]_vars

InitInfo == InfoInit /\ WalkIdle /\ RecIdle /\ AAVFIdle /\ FiltIdle
    /\ HeaderIdle

(* Reader.next on a data line whose INFO column holds entries of every     *)
(* kind.                                                                   *)
SpecInfo == InitInfo /\ [][ReaderNext]_vars

InitHeader == HeaderInit /\ WalkIdle /\ RecIdle /\ AAVFIdle /\ FiltIdle

(* A Reader constructed over a file, and the next calls made on it.        *)
SpecHeader == InitHeader /\ [][ReaderSteps]_vars

InitMeta == MetaInit /\ WalkIdle /\ RecIdle /\ AAVFIdle /\ FiltIdle

(* A Reader constructed over a file of metadata lines.                     *)
SpecMeta == InitMeta /\ [][ReaderSteps]_vars

InitHash == HashInit /\ WalkIdle /\ RecIdle /\ AAVFIdle /\ FiltIdle

(* A Reader constructed over a file with a bracketed metadata line.        *)
SpecHash == InitHash /\ [][ReaderSteps]_vars

InitWriter == WriterInit /\ WalkIdle /\ RecIdle /\ AAVFIdle /\ FiltIdle

(* A Reader constructed over a file, a Writer made with that Reader as its *)
(* template, and a Reader over what the Writer wrote.                      *)
SpecWriter == InitWriter /\ [][WriterSteps]_vars

-----------------------------------------------------------------------------
(* Notions the properties of walk_together are stated in.                  *)

(* k1 <= k2 on (CHROM, GENE, POS): CHROM first, then GENE, then POS.       *)
KeyLeq(k1, k2) ==
    IF k1[1] # k2[1] THEN StrRank(k1[1]) < StrRank(k2[1])
    ELSE IF k1[2] # k2[2] THEN StrRank(k1[2]) < StrRank(k2[2])
    ELSE k1[3] <= k2[3]

(* Source s is sorted ascending by key (equal neighbours allowed).         *)
SortedAsc(s) == \A i \in 1..(Len(s) - 1) : KeyLeq(KeyOf(s[i]), KeyOf(s[i + 1]))

(* Source s is sorted strictly ascending by key: no key occurs twice.      *)
StrictlyAsc(s) ==
    \A i \in 1..(Len(s) - 1) :
        KeyLeq(KeyOf(s[i]), KeyOf(s[i + 1])) /\ KeyOf(s[i]) # KeyOf(s[i + 1])

(* The distinct keys occurring in any source.                              *)
AllKeys ==
    UNION { { KeyOf(readers[i][j]) : j \in 1..Len(readers[i]) } : i \in ReaderIdx }

(* The populated slots of a row.                                           *)
Populated(row) == { i \in DOMAIN row : row[i] # NoneRec }

(* The keys held by the populated slots of a row.                          *)
RowKeys(row) == { KeyOf(row[i]) : i \in Populated(row) }

(* The number of records in all sources.                                   *)
TotalRecords == SumTo([i \in ReaderIdx |-> Len(readers[i])], Len(readers))

(* The rows, in order of emission, whose populated slots hold key k.       *)
RowsOfKey(k) == { n \in 1..Len(rows) : k \in RowKeys(rows[n]) }

-----------------------------------------------------------------------------
C2_RowHoldsOneVariant ==
    \A n \in 1..Len(rows) :
        \A i, j \in Populated(rows[n]) :
            /\ rows[n][i].CHROM = rows[n][j].CHROM
            /\ rows[n][i].GENE = rows[n][j].GENE
            /\ rows[n][i].POS = rows[n][j].POS
            /\ rows[n][i].REF = rows[n][j].REF
            /\ rows[n][i].ALT = rows[n][j].ALT

(* C3: over N readers of one and the same record sequence of length L,     *)
(* every yielded row has width N, every slot of it is populated and holds  *)
(* that reader's record of the row's rank, the records of a row are equal  *)
(* to each other by Record.__eq__, and the finished walk has yielded       *)
(* exactly L rows.                                                         *)
C3_IdenticalReaders ==
    (\A i \in ReaderIdx : readers[i] = readers[1]) =>
        /\ \A n \in 1..Len(rows) :
              /\ Len(rows[n]) = Len(readers)
              /\ \A i \in ReaderIdx :
                    /\ rows[n][i] # NoneRec
                    /\ n <= Len(readers[i]) /\ rows[n][i] = readers[i][n]
              /\ \A i, j \in ReaderIdx : Record_eq(rows[n][i], rows[n][j])
        /\ (wpc = "done" => Len(rows) = Len(readers[1]))

(* Three identical readers of three records, one key occurring twice in    *)
(* them: the walk is finished with three rows.                             *)
C3_Witness ==
    /\ wpc = "done"
    /\ Len(readers) = 3
    /\ \A i \in ReaderIdx : readers[i] = readers[1]
    /\ Len(readers[1]) = 3
    /\ KeyOf(readers[1][1]) = KeyOf(readers[1][2])
    /\ Len(rows) = 3

(* The CHROM of the row yielded last, the None of (None,) before the       *)
(* first row.                                                              *)
LastChrom ==
    IF rows = <<>> THEN NoneChrom
    ELSE LET last == rows[Len(rows)]
         IN  last[CHOOSE i \in Populated(last) : TRUE].CHROM

(* The keys pending in nexts.                                              *)
Pending == { KeyOf(nexts[i]) : i \in { j \in DOMAIN nexts : nexts[j] # NoneRec } }

(* The keys a pass of the loop chooses among: the pending keys of the      *)
(* CHROM yielded last if there are any, all pending keys otherwise.        *)
Eligible ==
    LET same == { k \in Pending : k[1] = LastChrom }
    IN  IF same # {} THEN same ELSE Pending

A1 == Record("chr1", "RT", 5, "A", <<"K">>, FList(<<>>), 1, 1, EmptyDict)
A2 == Record("chr2", "RT", 1, "A", <<"K">>, FList(<<>>), 1, 1, EmptyDict)
B1 == Record("chr1", "RT", 9, "A", <<"K">>, FList(<<>>), 1, 1, EmptyDict)

(* C4: every pass of the loop yields the row of the least eligible key:    *)
(* the least pending key of the CHROM yielded last when a pending key has  *)
(* that CHROM, also when a pending key of another CHROM is smaller, and    *)
(* the least of all pending keys otherwise and in the first pass.  For     *)
(* A = [(chr1,5),(chr2,1)] and B = [(chr1,9)] the rows are [A,None],       *)
(* [None,B], [A,None].                                                     *)
C4_ContigCompletion ==
    /\ [][ Len(rows') = Len(rows) + 1 =>
             \E k \in Eligible :
                /\ \A j \in Eligible : KeyLeq(k, j)
                /\ RowKeys(rows'[Len(rows')]) = {k}
                /\ Populated(rows'[Len(rows')]) # {} ]_vars
    /\ []( (readers = << <<A1, A2>>, <<B1>> >> /\ wpc = "done") =>
             rows = << <<A1, NoneRec>>, <<NoneRec, B1>>, <<A2, NoneRec>> >> )

(* A row has just been yielded for a key of the CHROM yielded before it    *)
(* while a reader that is not in the row holds a smaller key of another    *)
(* CHROM.                                                                  *)
C4_Witness ==
    /\ Len(rows) >= 2
    /\ LET last == rows[Len(rows)]
           prev == rows[Len(rows) - 1]
       IN  \E k \in RowKeys(last), p \in RowKeys(prev) :
              /\ k[1] = p[1]
              /\ \E i \in ReaderIdx :
                    /\ last[i] = NoneRec
                    /\ nexts[i] # NoneRec
                    /\ KeyOf(nexts[i])[1] # k[1]
                    /\ KeyLess(KeyOf(nexts[i]), k)

-----------------------------------------------------------------------------
(* Notions the properties of Record and AAVF are stated in.                *)

HasAC(r) == "AC" \in DOMAIN r.INFO

SameVariant(r1, r2) ==
    <<r1.CHROM, r1.GENE, r1.POS, r1.REF, r1.ALT>>
        = <<r2.CHROM, r2.GENE, r2.POS, r2.REF, r2.ALT>>

(* The names FILTER holds, none for None.                                  *)
NamesOf(f) == IF f.isNone THEN <<>> ELSE f.names

(* C7: recA == recB is true exactly when the two records have equal        *)
(* (CHROM, GENE, POS, REF, ALT) and either both carry INFO['AC'] with      *)
(* equal values or neither carries it; whatever the other INFO entries,    *)
(* FILTER, ALT_FREQ and COVERAGE are.                                      *)
C7_EqualityIsACAware ==
    eq_result # "unset" =>
        ( eq_result = "True" <=>
            /\ SameVariant(recA, recB)
            /\ HasAC(recA) = HasAC(recB)
            /\ HasAC(recA) /\ HasAC(recB) => recA.INFO["AC"] = recB.INFO["AC"] )

(* The comparison returned true for two records with equal AC that differ  *)
(* in INFO['DP'], FILTER, ALT_FREQ and COVERAGE.                           *)
C7_Witness ==
    /\ eq_result = "True"
    /\ HasAC(recA) /\ HasAC(recB)
    /\ "DP" \in DOMAIN recA.INFO /\ "DP" \notin DOMAIN recB.INFO
    /\ recA.FILTER # recB.FILTER
    /\ recA.ALT_FREQ # recB.ALT_FREQ
    /\ recA.COVERAGE # recB.COVERAGE

(* C9: the next calls on an AAVF object have returned the first index + 1  *)
(* records, each once and in order; a call that raises StopIteration has   *)
(* been preceded by calls that returned all the records; after it, every   *)
(* further call raises StopIteration and returns no record; on an object   *)
(* without records the first call raises it.                               *)
C9_SinglePassCursor ==
    /\ [] ( /\ returned = SubSeq(records, 1, index + 1)
            /\ outcome = "StopIteration" => returned = records
            /\ (records = <<>> /\ calls >= 1) => outcome = "StopIteration"
            /\ (outcome = "record" \/ outcome = "none") => Len(returned) = calls )
    /\ [][ outcome = "StopIteration" =>
              (outcome' = "StopIteration" /\ returned' = returned) ]_vars

(* All three records were returned and two calls after them have raised    *)
(* StopIteration.                                                          *)
C9_Witness ==
    /\ Len(records) = 3
    /\ returned = records
    /\ outcome = "StopIteration"
    /\ calls = 5

(* C10: after any calls of add_filter FILTER holds the names it held       *)
(* before (none for None) followed by the names added, in call order;      *)
(* without a call it is unchanged; after a call is_filtered is true; and   *)
(* a call of add_filter leaves CHROM, GENE, POS, REF, ALT, ALT_FREQ,       *)
(* COVERAGE and INFO as they are.                                          *)
C10_AddFilterAppends ==
    /\ [] ( /\ added = <<>> => recA.FILTER = recA0.FILTER
            /\ added # <<>> =>
                  /\ recA.FILTER = FList(NamesOf(recA0.FILTER) \o added)
                  /\ is_filtered(recA) )
    /\ [][ added' # added =>
              [recA' EXCEPT !.FILTER = recA.FILTER] = recA ]_vars

(* Two names were added to a record whose FILTER held one name.            *)
C10_Witness ==
    /\ recA0.FILTER = FList(<<"q10">>)
    /\ added = <<"s50", "q10">>
    /\ recA.FILTER = FList(<<"q10", "s50", "q10">>)
    /\ recA.INFO # recA0.INFO

-----------------------------------------------------------------------------
(* Notions the properties of the FILTER column are stated in.              *)

(* The number of occurrences of symbol c in a text.                        *)
Count(text, c) == Cardinality({ i \in 1..Len(text) : text[i] = c })

(* C8: the FILTER text '.' decodes to None; 'PASS' decodes to the empty    *)
(* list, and is_filtered is false; any other text decodes to the list of   *)
(* its pieces between the ';' (one more piece than there are ';', none     *)
(* holding a ';', and joined by ';' they give the text back), and          *)
(* is_filtered is true; is_filtered is true exactly when FILTER is not     *)
(* None and not empty.                                                     *)
C8_FilterDecoding ==
    fpc = "parsed" =>
        LET held == [FILTER |-> filt]
        IN  /\ filt_str = MISSING => filt = FNone
            /\ filt_str = PASS => (filt = FList(<<>>) /\ ~is_filtered(held))
            /\ (filt_str # MISSING /\ filt_str # PASS) =>
                  /\ ~filt.isNone
                  /\ Len(filt.names) = Count(filt_str, ";") + 1
                  /\ \A n \in 1..Len(filt.names) : Count(filt.names[n], ";") = 0
                  /\ Join(filt.names, ";") = filt_str
                  /\ is_filtered(held)
            /\ is_filtered(held) <=> (~filt.isNone /\ filt.names # <<>>)

(* A text of two names was decoded.                                        *)
C8_Witness ==
    /\ fpc = "parsed"
    /\ filt_str = << "q", ";", "S" >>
    /\ filt = FList(<< <<"q">>, <<"S">> >>)

-----------------------------------------------------------------------------
(* Notions the properties of the codec are stated in.                      *)

(* The INFO column of the written line.                                    *)
WrittenInfo == RowSplit(Strip(out.val), TRUE)[9]

(* The identifiers of the INFO column of the written line, in order.       *)
WrittenIds ==
    IF WrittenInfo = MISSING THEN <<>>
    ELSE LET pieces == Split(WrittenInfo, ";")
         IN  [n \in 1..Len(pieces) |-> SplitFirst(pieces[n], "=")[1]]

(* The rank of the header's definition of id, 0 when it defines none.      *)
DefRank(id) ==
    IF \E n \in 1..Len(infos) : infos[n].id = id
    THEN CHOOSE n \in 1..Len(infos) : infos[n].id = id
    ELSE 0

(* C5 as stated: a record decoded from a well-formed line is written, and  *)
(* the written line decodes, under the same header, to a record that is    *)
(* equal to it by Record.__eq__ and has an equal INFO.  The code raises    *)
(* AttributeError in Writer._stringify for every FILTER but PASS and for   *)
(* every INFO value but a flag, and writes ALT as the str of a list.       *)
C5_RoundTrip ==
    /\ (cpc = "written" /\ rec.ok) => out.ok
    /\ cpc = "reread" =>
          /\ rec2.ok
          /\ Record_eq(rec.val, rec2.val)
          /\ rec.val.INFO = rec2.val.INFO

(* C6: in the INFO column of every written line, the identifiers are those *)
(* of the record, each once; an identifier the header defines comes before *)
(* every identifier it does not define; the defined ones come in the order *)
(* of their definitions; the undefined ones come in alphabetical order.    *)
C6_InfoOrder ==
    ((cpc = "written" \/ cpc = "reread") /\ out.ok) =>
        LET ids == WrittenIds
        IN  /\ { ids[n] : n \in 1..Len(ids) } = DOMAIN rec.val.INFO
            /\ \A i, j \in 1..Len(ids) : i < j =>
                  /\ ids[i] # ids[j]
                  /\ DefRank(ids[i]) = 0 => DefRank(ids[j]) = 0
                  /\ (DefRank(ids[i]) > 0 /\ DefRank(ids[j]) > 0) =>
                        DefRank(ids[i]) < DefRank(ids[j])
                  /\ (DefRank(ids[i]) = 0 /\ DefRank(ids[j]) = 0) =>
                        StrRank(ids[i][1]) < StrRank(ids[j][1])

(* A line with the flags XB, XA, DB, H2 in this order was written under a  *)
(* header that defines H2 and then DB: the INFO column is H2;DB;XA;XB.     *)
C6_Witness ==
    /\ cpc = "written"
    /\ out.ok
    /\ [n \in 1..Len(infos) |-> infos[n].id] = << <<"H2">>, <<"DB">> >>
    /\ RowSplit(line, TRUE)[9] = << "XB", ";", "XA", ";", "DB", ";", "H2" >>
    /\ WrittenInfo = << "H2", ";", "DB", ";", "XA", ";", "XB" >>

-----------------------------------------------------------------------------
(* Notions the properties of Reader._parse_info are stated in.             *)

(* The INFO entries of the line read, each as [ID] or [ID, raw].           *)
LineEntries ==
    LET info == RowSplit(line, TRUE)[9]
        pieces == Split(info, ";")
    IN  IF info = MISSING THEN <<>>
        ELSE [n \in 1..Len(pieces) |-> SplitFirst(pieces[n], "=")]

(* The header declares Number=1 for id.                                    *)
DeclaredOne(id) ==
    \E n \in 1..Len(infos) : infos[n].id = id /\ infos[n].num = 1

(* The header declares the type Flag for id.                               *)
DeclaredFlag(id) ==
    \E n \in 1..Len(infos) : infos[n].id = id /\ infos[n].type = "Flag"

(* C11 as stated: an entry with a declared Number of 1 and a declared type *)
(* other than Flag decodes to a scalar, every other entry to a sequence.   *)
(* An entry that is a flag (declared as one, or without a value) decodes   *)
(* to True, which is no sequence.                                          *)
C11_UnwrapAsStated ==
    (cpc = "read" /\ rec.ok) =>
        \A n \in 1..Len(LineEntries) :
            LET id == LineEntries[n][1]
            IN  IF DeclaredOne(id) /\ ~DeclaredFlag(id)
                THEN rec.val.INFO[id].kind = "scalar"
                ELSE rec.val.INFO[id].kind = "list"

(* C11 as amended: of the decoded entries, one that is declared a Flag or  *)
(* has no value decodes to True; any other entry decodes to a scalar, its  *)
(* first value, when the header declares Number=1 for it, and otherwise    *)
(* (another Number, an unknown Number, an identifier the header does not   *)
(* define, reserved or not) to the sequence of its comma-separated values. *)
C11_ScalarUnwrap ==
    (cpc = "read" /\ rec.ok) =>
        \A n \in 1..Len(LineEntries) :
            LET e == LineEntries[n]
                v == rec.val.INFO[e[1]]
            IN  IF DeclaredFlag(e[1]) \/ Len(e) = 1
                THEN v = FlagVal
                ELSE IF DeclaredOne(e[1])
                THEN /\ v.kind = "scalar"
                     /\ v.items[1].v = Split(e[2], ",")[1]
                ELSE /\ v.kind = "list"
                     /\ Len(v.items) = Len(Split(e[2], ","))

(* A line with AF=0.0031 and AC=tAa was decoded under the header that      *)
(* declares AF as one Float: AF is the scalar 0.0031, AC a sequence.       *)
C11_Witness ==
    /\ cpc = "read"
    /\ rec.ok
    /\ DeclaredOne(<<"AF">>)
    /\ DOMAIN rec.val.INFO = { <<"AF">>, <<"AC">> }
    /\ rec.val.INFO[<<"AF">>] = ScalarVal([t |-> "float", v |-> <<"0.0031">>])
    /\ rec.val.INFO[<<"AC">>] = ListVal(<< [t |-> "str", v |-> <<"tAa">>] >>)

(* Entry n of the line is the last one with its identifier: the one whose  *)
(* value the decoded INFO holds.                                           *)
LastEntry(n) ==
    \A m \in (n + 1)..Len(LineEntries) : LineEntries[m][1] # LineEntries[n][1]

(* The type the header declares for id.                                    *)
DeclaredType(id) ==
    infos[CHOOSE n \in 1..Len(infos) : infos[n].id = id].type

(* The types of the items of a decoded value.                              *)
ItemTypes(v) == { v.items[n].t : n \in 1..Len(v.items) }

(* The type of an entry by the stated priority: the header, then the       *)
(* reserved table, then String with a value and Flag without one.          *)
PriorityType(e) ==
    IF \E n \in 1..Len(infos) : infos[n].id = e[1] THEN DeclaredType(e[1])
    ELSE IF e[1] \in { <<"RC">>, <<"AC">> } THEN "String"
    ELSE IF e[1] \in { <<"ACC">>, <<"ACF">> } THEN "Float"
    ELSE IF Len(e) > 1 THEN "String"
    ELSE "Flag"

(* C21: every decoded entry has the value of the type that the priority    *)
(* gives it -- the header's type, else the reserved one, else String with  *)
(* a value and Flag without: a Flag is True, an Integer holds ints (or     *)
(* floats, by the fallback), a Float holds floats, a String or Character   *)
(* holds strs (True without a value).                                      *)
C21_TypePriority ==
    (cpc = "read" /\ rec.ok) =>
        \A n \in 1..Len(LineEntries) : LastEntry(n) =>
            LET e == LineEntries[n]
                v == rec.val.INFO[e[1]]
                T == PriorityType(e)
            IN  IF T = "Flag" THEN v = FlagVal
                ELSE IF T = "Integer"
                THEN /\ v.kind # "flag"
                     /\ \/ ItemTypes(v) \subseteq { "int", "none" }
                        \/ ItemTypes(v) \subseteq { "float", "none" }
                ELSE IF T = "Float"
                THEN /\ v.kind # "flag"
                     /\ ItemTypes(v) \subseteq { "float", "none" }
                ELSE IF Len(e) = 1 THEN v = FlagVal
                ELSE /\ v.kind # "flag"
                     /\ ItemTypes(v) \subseteq { "str", "none" }

(* AC=5;XA=5 was decoded under the header that declares the reserved AC as *)
(* one Integer: AC is the int 5, not a str, and the unknown XA is a str.   *)
C21_Witness ==
    /\ cpc = "read"
    /\ rec.ok
    /\ \E n \in 1..Len(infos) : infos[n] = Info(<<"AC">>, 1, "Integer")
    /\ LineEntries = << << <<"AC">>, <<"5">> >>, << <<"XA">>, <<"5">> >> >>
    /\ rec.val.INFO[<<"AC">>] = ScalarVal([t |-> "int", v |-> <<"5">>])
    /\ rec.val.INFO[<<"XA">>] = ListVal(<< [t |-> "str", v |-> <<"5">>] >>)

(* A token is missing: the missing-value token or the empty string.        *)
MissingToken(t) == t = << "." >> \/ t = <<>>

(* The tokens decoded one by one as ints, and as floats, None for a        *)
(* missing token.                                                          *)
AsInts(tokens) ==
    [n \in 1..Len(tokens) |->
        IF MissingToken(tokens[n]) THEN NoneItem
        ELSE [t |-> "int", v |-> IntStr(IntOf(tokens[n]))]]

AsFloats(tokens) ==
    [n \in 1..Len(tokens) |->
        IF MissingToken(tokens[n]) THEN NoneItem
        ELSE [t |-> "float", v |-> FloatStr(FloatOf(tokens[n]))]]

(* C22: of a decoded line, an Integer entry with a value holds, when every *)
(* token that is not missing is an integer, the ints of its tokens, and    *)
(* otherwise the floats of all its tokens, those that are integers         *)
(* included; a missing token is None in both cases.  (A Number=1 entry     *)
(* holds the first element of that list.)                                  *)
C22_IntegerAllOrNothing ==
    (cpc = "read" /\ rec.ok) =>
        \A n \in 1..Len(LineEntries) :
            (/\ LastEntry(n)
             /\ Len(LineEntries[n]) = 2
             /\ PriorityType(LineEntries[n]) = "Integer") =>
            LET e == LineEntries[n]
                v == rec.val.INFO[e[1]]
                tokens == Split(e[2], ",")
                decoded ==
                    IF \A m \in 1..Len(tokens) :
                          MissingToken(tokens[m]) \/ CanInt(tokens[m])
                    THEN AsInts(tokens)
                    ELSE AsFloats(tokens)
            IN  \/ v = ListVal(decoded)
                \/ DeclaredOne(e[1]) /\ v = ScalarVal(decoded[1])

(* DP=0.5,,1 was decoded as an Integer entry: the integer 1 is the float   *)
(* 1.0 and the empty token is None.                                        *)
C22_Witness ==
    /\ cpc = "read"
    /\ rec.ok
    /\ LineEntries = << << <<"DP">>, <<"0.5", ",", ",", "1">> >> >>
    /\ PriorityType(LineEntries[1]) = "Integer"
    /\ rec.val.INFO[<<"DP">>] =
          ListVal(<< [t |-> "float", v |-> <<"0.5">>], NoneItem,
                     [t |-> "float", v |-> <<"1.0">>] >>)

(* An entry without a value whose type, by the priority, is String or      *)
(* Character, or whose identifier neither the header nor the reserved      *)
(* table holds.                                                            *)
BareText(e) ==
    /\ Len(e) = 1
    /\ PriorityType(e) \in { "String", "Character", "Flag" }
    /\ \A n \in 1..Len(infos) : infos[n].id = e[1] => infos[n].type # "Flag"

(* C23: a line whose INFO entries are all identifiers without a value, of  *)
(* type String or Character or unknown to the header and the reserved      *)
(* table, is decoded without an exception; and in every decoded line such  *)
(* an entry is True, as a whole and not as a first element, also where the *)
(* header declares Number=1 for it.                                        *)
C23_BareIdentifierIsFlag ==
    cpc = "read" =>
        /\ (\A n \in 1..Len(LineEntries) : BareText(LineEntries[n])) => rec.ok
        /\ rec.ok =>
              \A n \in 1..Len(LineEntries) :
                  (LastEntry(n) /\ BareText(LineEntries[n])) =>
                      rec.val.INFO[LineEntries[n][1]] = FlagVal

(* AA;RC was decoded under the header that declares AA as one Character:   *)
(* the declared AA and the reserved RC are both True.                      *)
C23_Witness ==
    /\ cpc = "read"
    /\ rec.ok
    /\ \E n \in 1..Len(infos) : infos[n] = Info(<<"AA">>, 1, "Character")
    /\ LineEntries = << << <<"AA">> >>, << <<"RC">> >> >>
    /\ BareText(LineEntries[1])
    /\ BareText(LineEntries[2])
    /\ rec.val.INFO[<<"AA">>] = FlagVal
    /\ rec.val.INFO[<<"RC">>] = FlagVal

-----------------------------------------------------------------------------
(* Notions the properties of read_meta_hash are stated in.                 *)

(* The bracketed line of the file, and what it holds between < and >.      *)
HashLine == stream[1]
HashBody == SubSeq(HashLine, 6, Len(HashLine) - 1)

(* The line was read: the loop of _parse_metainfo has stored its value.    *)
HashRead == hpc \in { "meta", "ready", "eof" } /\ header_lines # <<>>

(* A value as a whole: without a comma and a quote mark, or from a quote   *)
(* mark to the next one.                                                   *)
WholeValue(v) ==
    \/ \A i \in 1..Len(v) : v[i] # "," /\ v[i] # QUOTE
    \/ /\ Len(v) >= 2
       /\ v[1] = QUOTE
       /\ v[Len(v)] = QUOTE
       /\ \A i \in 2..(Len(v) - 1) : v[i] # QUOTE

(* C24: the value stored for ##key=<k1=v1,k2=v2,...> under key is one      *)
(* ordered submap; its items k=v, joined by commas in their order, are the *)
(* text between the brackets, so that every item is there, the last one    *)
(* too, in file order and with its quote marks; every key is free of = and *)
(* of commas, and every value is a whole value: a quoted value with a      *)
(* comma or a > in it is not cut.                                          *)
C24_BracketedMetadata ==
    HashRead =>
        /\ DOMAIN metadata = { << HashLine[3] >> }
        /\ IsDict(metadata[<< HashLine[3] >>].vals[1])
        /\ LET sub == DictItems(metadata[<< HashLine[3] >>].vals[1])
           IN  /\ Join([n \in 1..Len(sub) |-> sub[n][1] \o << "=" >> \o sub[n][2]],
                       ",") = HashBody
               /\ \A n \in 1..Len(sub) :
                     /\ \A i \in 1..Len(sub[n][1]) :
                           sub[n][1][i] # "=" /\ sub[n][1][i] # ","
                     /\ WholeValue(sub[n][2])
               /\ \A a, b \in 1..Len(sub) : a # b => sub[a][1] # sub[b][1]

(* ##contig=<ID="a,b",length=x,assembly="a>"> was read: three items, the   *)
(* quoted values whole.                                                    *)
C24_Witness ==
    /\ hpc = "ready"
    /\ metadata[<<"contig">>] =
          MetaList(<< DictVal(
              << << <<"ID">>, << QUOTE, "a", ",", "b", QUOTE >> >>,
                 << <<"length">>, << "x" >> >>,
                 << <<"assembly">>, << QUOTE, "a", ">", QUOTE >> >> >>) >>)

-----------------------------------------------------------------------------
(* C25 as stated: a Writer made from the Reader of a parsed file writes    *)
(* the header without an exception, and a Reader over the written text     *)
(* holds the same metadata, INFO definitions (in the same order), FILTER   *)
(* definitions and column headers.  Writer.__init__ raises AttributeError  *)
(* in _write_header, so the line of the column headers is never written    *)
(* and the second Reader ends in StopIteration.                            *)
C25_HeaderRoundTrip ==
    /\ hpc \in { "written", "reread" } => werr = ""
    /\ hpc = "reread" =>
          /\ reader2.ok
          /\ reader2.val.metadata = metadata
          /\ reader2.val.infos = infos
          /\ reader2.val.filters = filters
          /\ reader2.val.column_headers = column_headers

-----------------------------------------------------------------------------
(* The FILTER column of the written line.                                  *)
WrittenFilter == RowSplit(Strip(out.val), TRUE)[6]

(* Every INFO value of the record read is True, which the Writer formats   *)
(* without a call of _stringify.                                           *)
FlagsOnly == \A id \in DOMAIN rec.val.INFO : rec.val.INFO[id] = FlagVal

(* C26 as stated: a record whose INFO holds nothing but flags is written,  *)
(* whatever its FILTER; the FILTER column written is PASS for the empty    *)
(* sequence, the missing-value token for None and the names joined by ;    *)
(* otherwise, and it decodes to the FILTER of the record.  The code raises *)
(* AttributeError in Writer._stringify for None and for every sequence of  *)
(* names.                                                                  *)
C26_FilterInverse ==
    (cpc = "written" /\ rec.ok /\ FlagsOnly) =>
        /\ out.ok
        /\ WrittenFilter =
              (IF rec.val.FILTER = FNone THEN MISSING
               ELSE IF rec.val.FILTER = FList(<<>>) THEN PASS
               ELSE Join(rec.val.FILTER.names, ";"))
        /\ parse_filter(WrittenFilter) = rec.val.FILTER

-----------------------------------------------------------------------------
(* Notions the properties of the header are stated in.                     *)

(* The Reader is constructed: __init__ has returned.                       *)
Constructed == hpc = "ready" \/ hpc = "eof"

(* The lines of the file that are not blank, in order.                     *)
NonBlank == SelectSeq(stream, LAMBDA t : Strip(t) # <<>>)

(* The ## lines the file starts with, and the lines after them.            *)
RECURSIVE LeadingMeta(_)
LeadingMeta(ls) ==
    IF ls # <<>> /\ StartsWith(Strip(Head(ls)), << HASH, HASH >>)
    THEN << Strip(Head(ls)) >> \o LeadingMeta(Tail(ls))
    ELSE <<>>

AfterMeta == SubSeq(NonBlank, Len(LeadingMeta(NonBlank)) + 1, Len(NonBlank))

(* C12 as stated: the Reader is constructed only over a file that has,     *)
(* after its leading ## lines, a line that begins with #; over any other   *)
(* file __init__ raises, no column headers are set and no record is        *)
(* returned.  The code takes whatever line follows the ## lines as the     *)
(* column headers, a data line included.                                   *)
C12_MissingHeaderFatal ==
    /\ Constructed => (AfterMeta # <<>> /\ Head(Strip(AfterMeta[1])) = HASH)
    /\ hpc = "failed" => (column_headers = <<>> /\ got = <<>>)

(* The lines of the model that start with ##INFO or ##FILTER and do not    *)
(* match the grammar of their kind.                                        *)
Malformed(text) ==
    \/ text = InfoText(<<"DP">>, <<"1">>, "Int")
    \/ text = FilterText(<<"q10">>, <<>>)

(* C13: when one of the ## lines the file starts with is a malformed INFO  *)
(* or FILTER line, the Reader is never constructed and no record is        *)
(* returned; the pass of the loop that reads the malformed line raises     *)
(* SyntaxError and leaves the definitions as they were; once __init__ has  *)
(* raised, nothing is read or changed any more.                            *)
C13_MalformedHeaderFatal ==
    /\ []((\E n \in 1..Len(LeadingMeta(NonBlank)) :
              Malformed(LeadingMeta(NonBlank)[n]))
            => (~Constructed /\ got = <<>> /\ column_headers = <<>>))
    /\ [][(hpc = "meta" /\ Malformed(hline))
            => (/\ hpc' = "failed"
                /\ herr' = "SyntaxError"
                /\ UNCHANGED <<infos, filters, metadata, spos, got,
                               column_headers>>)]_vars
    /\ [][hpc # "failed"]_vars

(* __init__ has raised SyntaxError at a malformed INFO line that follows a *)
(* metadata line; the column headers and a data line are left unread.      *)
C13_Witness ==
    /\ hpc = "failed"
    /\ herr = "SyntaxError"
    /\ stream = << MetaText(<<"fileformat">>, <<"v1">>),
                   InfoText(<<"DP">>, <<"1">>, "Int"),
                   ColumnLine,
                   DataLine(<<"K">>, PASS, << "DP", "=", "31" >>) >>
    /\ spos = 2
    /\ got = <<>>

(* The (key, value) pairs of the metadata lines of the file, in order.     *)
MetaPairs ==
    [n \in 1..(Len(stream) - 1) |->
        << << stream[n][3] >>, << stream[n][5] >> >>]

(* The values of key in the file, in order.                                *)
ValuesOf(key) ==
    LET of == SelectSeq(MetaPairs, LAMBDA kv : kv[1] = key)
    IN  [n \in 1..Len(of) |-> of[n][2]]

(* The keys the specification calls singular.                              *)
SingularKeys ==
    { << "fileformat" >>, << "fileDate" >>, << "source" >>, << "reference" >> }

(* C15 as stated: after the header is parsed, the metadata has the keys of *)
(* the ##key=value lines; fileformat, fileDate, source and reference each  *)
(* map to one value, that of the last line with the key; any other key     *)
(* maps to the list of the values of its lines, in file order.  The code   *)
(* keeps source as a list.                                                 *)
C15_MetadataAccumulation ==
    Constructed =>
        /\ DOMAIN metadata = { MetaPairs[n][1] : n \in 1..Len(MetaPairs) }
        /\ \A key \in DOMAIN metadata :
              IF key \in SingularKeys
              THEN metadata[key] =
                       MetaOne(ValuesOf(key)[Len(ValuesOf(key))])
              ELSE metadata[key] = MetaList(ValuesOf(key))

(* The columns of the line read.                                           *)
LineColumns == RowSplit(line, opts.strict_whitespace)

(* C14 as stated: Reader.next returns a Record exactly when the line has   *)
(* nine columns and POS, ALT_FREQ and COVERAGE are numbers, and raises     *)
(* otherwise.  The code returns a Record for a line of more than nine      *)
(* columns.                                                                *)
C14_MalformedRowFatal ==
    cpc = "read" =>
        (rec.ok <=> (/\ Len(LineColumns) = 9
                     /\ CanInt(LineColumns[3])
                     /\ CanFloat(LineColumns[7])
                     /\ CanInt(LineColumns[8])))

-----------------------------------------------------------------------------
(* Further properties of walk_together.                                    *)

(* The records of slot i of the rows, None left out, in emission order.    *)
Column(i) ==
    LET held == SelectSeq(rows, LAMBDA row : row[i] # NoneRec)
    IN  [n \in 1..Len(held) |-> held[n][i]]

(* The key of row n.                                                       *)
RowKey(n) == CHOOSE k \in RowKeys(rows[n]) : TRUE

C17_CursorAdvance ==
    /\ [][ Len(rows') = Len(rows) + 1 =>
             \A i \in ReaderIdx :
                IF nexts[i] # NoneRec /\ KeyOf(nexts[i]) = min_k'
                THEN pulls'[i] = pulls[i] + 1
                ELSE pulls'[i] = pulls[i] /\ nexts'[i] = nexts[i] ]_vars
    /\ [][ \A i \in DOMAIN nexts :
               (wpc = "loop" /\ nexts[i] = NoneRec) =>
                   (nexts'[i] = NoneRec /\ pulls'[i] = pulls[i]) ]_vars
    /\ []( wpc \in {"loop", "done"} =>
             \A i \in ReaderIdx :
                /\ pulls[i] >= 1 /\ pulls[i] <= Len(readers[i]) + 1
                /\ nexts[i] = IF pulls[i] <= Len(readers[i])
                              THEN readers[i][pulls[i]]
                              ELSE NoneRec )

(* After two rows one reader is exhausted, having been called once more    *)
(* than it has records, while the other is at its second record.           *)
C17_Witness ==
    /\ wpc = "loop"
    /\ Len(rows) = 2
    /\ \E i, j \in ReaderIdx :
          /\ Len(readers[i]) = 1 /\ nexts[i] = NoneRec /\ pulls[i] = 2
          /\ Len(readers[j]) = 2 /\ nexts[j] # NoneRec /\ pulls[j] = 2

(* C18: the walk ends: every pass of the loop that yields a row calls      *)
(* next() on at least one reader that holds a record, there are never more *)
(* rows than records in all sources, the generator returns, and it has     *)
(* returned only when every reader is exhausted, all its records handed    *)
(* out; over empty sources no row is yielded.                              *)
C18_Termination ==
    /\ <>(wpc = "done")
    /\ [][ Len(rows') = Len(rows) + 1 =>
             \E i \in ReaderIdx :
                nexts[i] # NoneRec /\ pulls'[i] = pulls[i] + 1 ]_vars
    /\ [](Len(rows) <= TotalRecords)
    /\ [](wpc = "done" =>
             \A i \in ReaderIdx :
                nexts[i] = NoneRec /\ pulls[i] = Len(readers[i]) + 1)
    /\ []((\A i \in ReaderIdx : readers[i] = <<>>) => rows = <<>>)

(* The walk over two readers of one record each has ended after two rows.  *)
C18_Witness ==
    /\ wpc = "done"
    /\ Len(readers) = 2
    /\ \A i \in ReaderIdx : readers[i] # <<>>
    /\ TotalRecords = 2
    /\ Len(rows) = 2

(* C19: whatever the order of the records in the sources, the records of   *)
(* slot i of the rows yielded so far are the first records of source i, in *)
(* source order, and all its records when the walk has ended.              *)
C19_NoLossNoDuplicate ==
    \A i \in ReaderIdx :
        /\ Len(Column(i)) <= Len(readers[i])
        /\ Column(i) = SubSeq(readers[i], 1, Len(Column(i)))
        /\ wpc = "done" => Column(i) = readers[i]

(* The walk has ended over two readers, one of which is not sorted.        *)
C19_Witness ==
    /\ wpc = "done"
    /\ Len(readers) = 2
    /\ \E i \in ReaderIdx : Len(readers[i]) = 2 /\ ~SortedAsc(readers[i])
    /\ \A i \in ReaderIdx : readers[i] # <<>> /\ Column(i) = readers[i]

(* C20: when every source is sorted ascending by (CHROM, GENE, POS), the   *)
(* keys of the rows are in ascending order, and in every pass of the loop  *)
(* the least eligible key is the least of all pending keys.                *)
C20_OutputOrder ==
    (\A i \in ReaderIdx : SortedAsc(readers[i])) =>
        /\ \A n \in 1..(Len(rows) - 1) : KeyLeq(RowKey(n), RowKey(n + 1))
        /\ (wpc = "loop" /\ Pending # {}) =>
              \E k \in Eligible : \A j \in Pending : KeyLeq(k, j)

(* The walk over two sorted readers has ended with rows of two CHROM, the  *)
(* second reader holding a record of the first CHROM only.                 *)
C20_Witness ==
    /\ wpc = "done"
    /\ Len(readers) = 2
    /\ \A i \in ReaderIdx : SortedAsc(readers[i])
    /\ Len(readers[1]) = 2 /\ Len(readers[2]) = 1
    /\ Len(rows) = 3
    /\ RowKey(1)[1] = RowKey(2)[1]
    /\ RowKey(2)[1] # RowKey(3)[1]
    /\ rows[2][1] = NoneRec

====
